---- MODULE Spec2Model ----
(***************************************************************************)
(* Model of margin's run-block core (cli-go/internal/runblock): Run, the   *)
(* block selector, the shell / python / sql / json backends and the        *)
(* os/exec machinery they drive (exec.CommandContext + cmd.Run with a      *)
(* bytes.Buffer as Stdout and Stderr, under context.WithTimeout).          *)
(*                                                                         *)
(* Strings the code inspects (documents, language tags, json bodies,       *)
(* configured commands) are sequences of bytes, each a one-character       *)
(* string; texts the code only concatenates (captured output, notices,     *)
(* error texts) are sequences of pieces.                                   *)
(*                                                                         *)
(* Spec and FairSpec are Run on a fixed set of documents, with the child   *)
(* processes, the timer and the caller's cancellation.  ParseSpec is       *)
(* ParseBlocks (goldmark's fenced code blocks and the fence offset         *)
(* helpers) on every document of a few lines.  JsonSpec is Run on json     *)
(* blocks (encoding/json's decoder and indenting encoder) with every short *)
(* body, each output being run once more.                                  *)
(***************************************************************************)
EXTENDS Integers, Sequences, FiniteSets, TLC

\* ------------------------------------------------------------------ bounds

\* The capture buffer holds at most MaxOut pieces of process output.
MaxOut == 2

\* The json bodies explored exhaustively have at most MaxJsonLen bytes.
MaxJsonLen == 4

\* The documents given to ParseBlocks alone have at most MaxLines lines.
MaxLines == 5

\* The block lists given to PickBlock alone: every list of at most
\* MaxBlocks blocks with offsets up to MaxOff, and the evenly spaced lists
\* of LongLen - 1 and LongLen blocks.
MaxBlocks == 3
MaxOff == 3
LongLen == 13

\* The temporary directory has room for MaxNames names of the pattern
\* "margin-run-*.py".
MaxNames == 2

\* ------------------------------------------------------------------ strings

Upper == <<"A","B","C","D","E","F","G","H","I","J","K","L","M",
           "N","O","P","Q","R","S","T","U","V","W","X","Y","Z">>
Lower == <<"a","b","c","d","e","f","g","h","i","j","k","l","m",
           "n","o","p","q","r","s","t","u","v","w","x","y","z">>

LowerOf(c) ==
    IF \E i \in 1..Len(Upper) : Upper[i] = c
    THEN Lower[CHOOSE i \in 1..Len(Upper) : Upper[i] = c]
    ELSE c

\* strings.ToLower
ToLower(s) == [i \in 1..Len(s) |-> LowerOf(s[i])]

\* unicode.IsSpace, which strings.TrimSpace trims by: in Latin-1 the bytes
\* 0x09 to 0x0D, the space, and the runes U+0085 and U+00A0.  "vt" stands
\* for the byte 0x0B, which a string literal here cannot hold, "u0085" and
\* "u00a0" for the two runes.
IsSpace(c) == c \in {"\t", "\n", "vt", "\f", "\r", " ", "u0085", "u00a0"}

RECURSIVE TrimLeft(_)
TrimLeft(s) ==
    IF s # <<>> /\ IsSpace(Head(s)) THEN TrimLeft(Tail(s)) ELSE s

RECURSIVE TrimRight(_)
TrimRight(s) ==
    IF s # <<>> /\ IsSpace(s[Len(s)])
    THEN TrimRight(SubSeq(s, 1, Len(s) - 1))
    ELSE s

\* strings.TrimSpace
TrimSpace(s) == TrimRight(TrimLeft(s))

\* Names used by the code or by the configurations below.
S_empty  == <<>>
S_blank  == <<" ">>
S_bash   == <<"b","a","s","h">>
S_sh     == <<"s","h">>
S_shell  == <<"s","h","e","l","l">>
S_python == <<"p","y","t","h","o","n">>
S_py     == <<"p","y">>
S_json   == <<"j","s","o","n">>
S_sql    == <<"s","q","l">>
S_zsh    == <<"z","s","h">>
S_gitbash1 == <<"C",":","\\","P","r","o","g","r","a","m"," ","F","i","l","e","s",
                "\\","G","i","t","\\","b","i","n","\\","b","a","s","h",".","e","x","e">>
S_gitbash2 == <<"C",":","\\","P","r","o","g","r","a","m"," ","F","i","l","e","s",
                "\\","G","i","t","\\","u","s","r","\\","b","i","n","\\","b","a","s","h",".","e","x","e">>
S_wsl    == <<"w","s","l",".","e","x","e">>

\* ------------------------------------------------------------------ shell candidates

RECURSIVE uniqueFrom(_, _)
uniqueFrom(in, out) ==
    IF in = <<>> THEN out
    ELSE LET v == TrimSpace(Head(in)) IN
         IF v = <<>> \/ (\E i \in 1..Len(out) : out[i] = v)
         THEN uniqueFrom(Tail(in), out)
         ELSE uniqueFrom(Tail(in), Append(out, v))

\* Mutant of uniqueStrings: every entry is kept as it is.
keepAllStrings(in) == in

\* uniqueStrings: trims every entry, drops blanks and later duplicates.
uniqueStrings(in) == uniqueFrom(in, <<>>)

\* shellCandidates: configured shell (when not blank), bash, sh, and on a
\* Windows host the Git-for-Windows bash paths and wsl.exe.
shellCandidates(configured, goos) ==
    uniqueStrings(
        (IF TrimSpace(configured) # <<>> THEN <<configured>> ELSE <<>>)
        \o <<S_bash, S_sh>>
        \o (IF goos = "windows" THEN <<S_gitbash1, S_gitbash2, S_wsl>> ELSE <<>>))

\* ------------------------------------------------------------------ fence parser

\* Offsets are byte offsets as in the code (the first byte is offset 0); a
\* document is the sequence of its bytes.  Slice(s, a, b) is s[a:b].
Slice(s, a, b) == SubSeq(s, a + 1, b)

\* The backtick byte (0x60), which a TLA+ string literal cannot hold.
BQ == "bq"

\* from + bytes.IndexByte(s[from:], c), or -1 when c does not occur
IndexFrom(s, from, c) ==
    IF \E i \in from..(Len(s) - 1) : s[i + 1] = c
    THEN CHOOSE i \in from..(Len(s) - 1) :
            s[i + 1] = c /\ \A j \in from..(i - 1) : s[j + 1] # c
    ELSE -1

keepSuffix(s, suffix) == s

\* strings.TrimSuffix
TrimSuffix(s, suffix) ==
    IF Len(s) >= Len(suffix)
       /\ SubSeq(s, Len(s) - Len(suffix) + 1, Len(s)) = suffix
    THEN SubSeq(s, 1, Len(s) - Len(suffix))
    ELSE s

\* strings.HasPrefix
HasPrefix(s, prefix) ==
    Len(s) >= Len(prefix) /\ SubSeq(s, 1, Len(prefix)) = prefix

\* The lines of the document as goldmark's reader hands them out: each ends
\* after its "\n", the last one at the end of the document.
RECURSIVE srcLines(_, _)
srcLines(src, from) ==
    IF from >= Len(src) THEN <<>>
    ELSE LET nl == IndexFrom(src, from, "\n")
             stop == IF nl < 0 THEN Len(src) ELSE nl + 1
         IN <<[Start |-> from, Stop |-> stop]>> \o srcLines(src, stop)

\* Number of leading spaces of a line (the documents explored hold no tab).
RECURSIVE leadingSpaces(_)
leadingSpaces(line) ==
    IF line # <<>> /\ Head(line) = " " THEN 1 + leadingSpaces(Tail(line)) ELSE 0

\* Length of the run of ch that starts at offset pos of the line.
RECURSIVE runLength(_, _, _)
runLength(line, pos, ch) ==
    IF pos < Len(line) /\ line[pos + 1] = ch
    THEN 1 + runLength(line, pos + 1, ch)
    ELSE 0

\* goldmark's util.IsSpace: the bytes 0x09 to 0x0D and the space.
utilIsSpace(c) == c \in {"\t", "\n", "vt", "\f", "\r", " "}

\* util.TrimLeftSpaceLength: the number of leading space bytes.
RECURSIVE TrimLeftSpaceLength(_)
TrimLeftSpaceLength(s) ==
    IF s # <<>> /\ utilIsSpace(Head(s)) THEN 1 + TrimLeftSpaceLength(Tail(s)) ELSE 0

\* util.TrimRightSpaceLength: the number of trailing space bytes.
RECURSIVE TrimRightSpaceLength(_)
TrimRightSpaceLength(s) ==
    IF s # <<>> /\ utilIsSpace(s[Len(s)])
    THEN 1 + TrimRightSpaceLength(SubSeq(s, 1, Len(s) - 1))
    ELSE 0

\* util.IsBlank: only space bytes
IsBlank(s) == \A i \in 1..Len(s) : utilIsSpace(s[i])

isBacktick(ch) == ch = BQ

\* The bytes a code fence is made of.
isFenceByte(ch) == ch \in {BQ, "~"}

NoFence == [ok |-> FALSE, char |-> "", indent |-> 0, length |-> 0, info |-> <<>>]

\* goldmark's fencedCodeBlockParser.Open on one line: at most three spaces of
\* indentation, then at least three backticks or tildes; what follows,
\* trimmed, is the info string, which may hold no backtick after a backtick
\* fence.  The info string is only looked for when more than one byte
\* follows the fence run.
openFence(line) ==
    LET pos == leadingSpaces(line)
        ch == IF pos < Len(line) THEN line[pos + 1] ELSE ""
        n == IF isFenceByte(ch) THEN runLength(line, pos, ch) ELSE 0
        i == pos + n
        rest == Slice(line, i, Len(line))
        left == TrimLeftSpaceLength(rest)
        right == TrimRightSpaceLength(rest)
        value == IF left < Len(rest) - right
                 THEN Slice(rest, left, Len(rest) - right)
                 ELSE <<>>
    IN IF pos >= 4 \/ n < 3 THEN NoFence
       ELSE IF i < Len(line) - 1 /\ value # <<>>
       THEN IF ch = BQ /\ (\E j \in 1..Len(value) : value[j] = BQ)
            THEN NoFence
            ELSE [ok |-> TRUE, char |-> ch, indent |-> pos, length |-> n,
                  info |-> value]
       ELSE [ok |-> TRUE, char |-> ch, indent |-> pos, length |-> n,
             info |-> <<>>]

\* ast.FencedCodeBlock.Language: the info string up to its first space
fenceLanguage(info) ==
    LET sp == IndexFrom(info, 0, " ")
    IN IF sp < 0 THEN info ELSE Slice(info, 0, sp)

\* fencedCodeBlockParser.Continue, closing test: fewer than four spaces of
\* indentation, a run of the opening character at least as long as the
\* opening run, and nothing but blanks after it.
closesFence(line, fd) ==
    LET pos == leadingSpaces(line)
        n == runLength(line, pos, fd.char)
    IN pos < 4 /\ n >= fd.length /\ IsBlank(Slice(line, pos + n, Len(line)))

\* util.FirstNonSpacePosition
firstNonSpacePosition(line) ==
    LET pos == leadingSpaces(line)
    IN IF pos >= Len(line) \/ line[pos + 1] = "\n" THEN -1 ELSE pos

\* fencedCodeBlockParser.Continue, content line: the offset in the line at
\* which the stored segment starts.  The indentation of the opening fence
\* is removed; a line with less indentation loses all of it.
contentPos(line, indent) ==
    IF indent = 0 THEN 0
    ELSE IF leadingSpaces(line) >= indent THEN indent
    ELSE IF firstNonSpacePosition(line) < 0 THEN 0
    ELSE firstNonSpacePosition(line)

\* text.Segment.Value with ForceNewline set
segmentValue(src, seg) ==
    LET v == Slice(src, seg.Start, seg.Stop)
    IN IF v # <<>> /\ v[Len(v)] # "\n" THEN Append(v, "\n") ELSE v

\* text.Segments.Value
RECURSIVE segmentsValue(_, _)
segmentsValue(src, segs) ==
    IF segs = <<>> THEN <<>>
    ELSE segmentValue(src, Head(segs)) \o segmentsValue(src, Tail(segs))

\* The fenced code blocks of the document in document order, each as the
\* opening fence's data and the segments of its content lines.  k is the next
\* line, fd the open fence (NoFence outside a block).  A block that is still
\* open at the end of the document is closed there.
RECURSIVE fencedBlocks(_, _, _, _, _, _)
fencedBlocks(src, lines, k, fd, segs, acc) ==
    IF k > Len(lines)
    THEN IF fd.ok THEN Append(acc, [fence |-> fd, lines |-> segs]) ELSE acc
    ELSE LET line == Slice(src, lines[k].Start, lines[k].Stop) IN
         IF ~fd.ok
         THEN fencedBlocks(src, lines, k + 1, openFence(line), <<>>, acc)
         ELSE IF closesFence(line, fd)
         THEN fencedBlocks(src, lines, k + 1, NoFence, <<>>,
                           Append(acc, [fence |-> fd, lines |-> segs]))
         ELSE fencedBlocks(src, lines, k + 1, fd,
                           Append(segs,
                                  [Start |-> lines[k].Start
                                             + contentPos(line, fd.indent),
                                   Stop |-> lines[k].Stop]),
                           acc)

\* findOpeningFenceStart: from the byte before the code, back over line
\* terminators, then back to the start of that line.
RECURSIVE skipTerminatorsBack(_, _)
skipTerminatorsBack(src, lineEnd) ==
    IF lineEnd >= 0 /\ src[lineEnd + 1] \in {"\n", "\r"}
    THEN skipTerminatorsBack(src, lineEnd - 1)
    ELSE lineEnd

RECURSIVE lineStartBack(_, _)
lineStartBack(src, lineStart) ==
    IF lineStart > 0 /\ src[lineStart] # "\n"
    THEN lineStartBack(src, lineStart - 1)
    ELSE lineStart

findOpeningFenceStart(src, codeStart) ==
    IF codeStart <= 0 THEN 0
    ELSE LET lineEnd == skipTerminatorsBack(src, codeStart - 1)
         IN IF lineEnd < 0 THEN 0 ELSE lineStartBack(src, lineEnd)

\* isFenceLine: the trimmed line starts with three backticks or tildes
isFenceLine(line) ==
    LET trimmed == TrimSpace(TrimSuffix(line, <<"\r">>))
    IN HasPrefix(trimmed, <<BQ, BQ, BQ>>) \/ HasPrefix(trimmed, <<"~", "~", "~">>)

\* findClosingFenceEnd, the loop: idx is moved to the next line start, and
\* the first fence line found from there ends the block.
RECURSIVE closingScan(_, _)
closingScan(src, idx0) ==
    LET n == Len(src)
        skip == idx0 > 0 /\ idx0 < n /\ src[idx0] # "\n"
        next == IF skip THEN IndexFrom(src, idx0, "\n") ELSE 0
        idx == IF skip THEN next + 1 ELSE idx0
    IN IF idx0 >= n THEN n
       ELSE IF skip /\ next < 0 THEN n
       ELSE IF idx >= n THEN n
       ELSE LET nl == IndexFrom(src, idx, "\n")
                lineEnd == IF nl < 0 THEN n ELSE nl
            IN IF isFenceLine(Slice(src, idx, lineEnd))
               THEN (IF lineEnd < n THEN lineEnd + 1 ELSE lineEnd)
               ELSE IF lineEnd = n THEN lineEnd
               ELSE closingScan(src, lineEnd + 1)

findClosingFenceEnd(src, codeEnd) ==
    IF codeEnd < 0 THEN closingScan(src, 0)
    ELSE IF codeEnd > Len(src) THEN Len(src)
    ELSE closingScan(src, codeEnd)

\* The Block that ParseBlocks builds from one fenced code block of the tree.
blockOf(src, fb) ==
    LET lines == fb.lines
        code == TrimSuffix(segmentsValue(src, lines), <<"\n">>)
        codeStart == IF Len(lines) > 0 THEN lines[1].Start ELSE 0
        codeEnd == IF Len(lines) > 0 THEN lines[Len(lines)].Stop ELSE 0
    IN [Language |-> fenceLanguage(fb.fence.info),
        Code |-> code,
        Start |-> findOpeningFenceStart(src, codeStart),
        End |-> findClosingFenceEnd(src, codeEnd),
        CodeStart |-> codeStart,
        CodeEnd |-> codeEnd]

\* ParseBlocks: one Block per fenced code block of the parsed document, in
\* document order.
ParseBlocks(src) ==
    LET fbs == fencedBlocks(src, srcLines(src, 0), 1, NoFence, <<>>, <<>>)
    IN [i \in 1..Len(fbs) |-> blockOf(src, fbs[i])]

\* ------------------------------------------------------------------ encoding/json

\* A decoded value is a record [t, v]: a number holds the shortest decimal
\* text of its float64, a string its bytes, null and the booleans their
\* name, an array its elements, an object (a Go map) its members in key
\* order with one member per key.
JNum(text)  == [t |-> "num", v |-> text]
JStr(bytes) == [t |-> "str", v |-> bytes]
JLit(name)  == [t |-> "lit", v |-> name]
JArr(elems) == [t |-> "arr", v |-> elems]
JObj(mems)  == [t |-> "obj", v |-> mems]

\* The scanner's isSpace: the JSON white space bytes.
isSpace(c) == c \in {" ", "\t", "\r", "\n"}

\* The white space the scanner skips between tokens.
RECURSIVE skipSpace(_)
skipSpace(s) ==
    IF s # <<>> /\ isSpace(Head(s)) THEN skipSpace(Tail(s)) ELSE s

\* A failed decoding.  atEnd: the input ended where more was needed and
\* the scanner's state accepts a space there ("unexpected end of JSON
\* input"); otherwise a byte, or the space the scanner feeds its state at
\* the end of the input, was rejected ("invalid character ...").
JFail(atEnd) == [ok |-> FALSE, eof |-> atEnd, val |-> JLit(<<>>), rest |-> <<>>]
JOk(val, rest) == [ok |-> TRUE, eof |-> FALSE, val |-> val, rest |-> rest]

Digits == {"0", "1"}

\* The bytes the explored texts are made of, in byte order.
ByteOrder == <<"\n", " ", "\"", ",", ".", "0", "1", "3", ":", "<", "[", "\\",
               "]", "a", "b", "c", "e", "f", "l", "n", "r", "s", "t", "u",
               "{", "}">>

byteRank(c) == CHOOSE i \in 1..Len(ByteOrder) : ByteOrder[i] = c

\* a < b for Go strings
RECURSIVE keyLess(_, _)
keyLess(a, b) ==
    IF b = <<>> THEN FALSE
    ELSE IF a = <<>> THEN TRUE
    ELSE IF Head(a) = Head(b) THEN keyLess(Tail(a), Tail(b))
    ELSE byteRank(Head(a)) < byteRank(Head(b))

\* m[k] = val on the map held as a key-ordered member list
RECURSIVE mapPut(_, _, _)
mapPut(m, k, val) ==
    IF m = <<>> THEN <<[k |-> k, val |-> val]>>
    ELSE IF Head(m).k = k THEN <<[k |-> k, val |-> val]>> \o Tail(m)
    ELSE IF keyLess(k, Head(m).k) THEN <<[k |-> k, val |-> val]>> \o m
    ELSE <<Head(m)>> \o mapPut(Tail(m), k, val)

\* The digits at the head of s.
RECURSIVE digitRun(_)
digitRun(s) ==
    IF s # <<>> /\ Head(s) \in Digits THEN <<Head(s)>> \o digitRun(Tail(s))
    ELSE <<>>

RECURSIVE stripZeros(_)
stripZeros(frac) ==
    IF frac # <<>> /\ frac[Len(frac)] = "0"
    THEN stripZeros(SubSeq(frac, 1, Len(frac) - 1))
    ELSE frac

\* strconv.ParseFloat followed by the encoder's float formatting, on the
\* short decimals explored: the fraction loses its trailing zeros.
floatText(int, frac) ==
    IF stripZeros(frac) = <<>> THEN int ELSE int \o <<".">> \o stripZeros(frac)

\* A number literal without sign and exponent: 0 or a digit string that
\* does not start with 0, then optionally a point and at least one digit.
\* After the point a digit must follow: another byte is rejected, and so is
\* the space the scanner feeds its state at the end of the input.
scanNumber(s) ==
    LET int == IF Head(s) = "0" THEN <<"0">> ELSE digitRun(s)
        r1 == Slice(s, Len(int), Len(s))
        frac == IF r1 # <<>> /\ Head(r1) = "." THEN digitRun(Tail(r1)) ELSE <<>>
    IN IF r1 # <<>> /\ Head(r1) = "."
       THEN IF frac = <<>> THEN JFail(FALSE)
            ELSE JOk(JNum(floatText(int, frac)),
                     Slice(r1, 1 + Len(frac), Len(r1)))
       ELSE JOk(JNum(int), r1)

\* A string literal after its opening quote.  The escapes decoded are the
\* quote, the backslash and <; a raw line feed is not allowed.
RECURSIVE scanString(_, _)
scanString(s, acc) ==
    IF s = <<>> THEN JFail(TRUE)
    ELSE LET c == Head(s)  r == Tail(s) IN
         IF c = "\"" THEN JOk(JStr(acc), r)
         ELSE IF c = "\n" THEN JFail(FALSE)
         ELSE IF c = "\\" THEN
              IF r = <<>> THEN JFail(FALSE)
              ELSE IF Head(r) \in {"\"", "\\"}
                   THEN scanString(Tail(r), Append(acc, Head(r)))
              ELSE IF HasPrefix(r, <<"u", "0", "0", "3", "c">>)
                   THEN scanString(Slice(r, 5, Len(r)), Append(acc, "<"))
              ELSE JFail(FALSE)
         ELSE scanString(r, Append(acc, c))

\* null, true or false at the head of s; a literal cut short by the end of
\* the input is rejected like one with a wrong byte.
scanLiteral(s, name) ==
    IF HasPrefix(s, name) THEN JOk(JLit(name), Slice(s, Len(name), Len(s)))
    ELSE JFail(FALSE)

S_null  == <<"n", "u", "l", "l">>
S_true  == <<"t", "r", "u", "e">>
S_false == <<"f", "a", "l", "s", "e">>

RECURSIVE parseValue(_)
RECURSIVE parseElements(_, _)
RECURSIVE parseMembers(_, _)

\* One JSON value at the head of s, after white space.
parseValue(s0) ==
    LET s == skipSpace(s0) IN
    IF s = <<>> THEN JFail(TRUE)
    ELSE LET c == Head(s) IN
         CASE c = "[" ->
                  LET r == skipSpace(Tail(s)) IN
                  IF r # <<>> /\ Head(r) = "]" THEN JOk(JArr(<<>>), Tail(r))
                  ELSE parseElements(r, <<>>)
           [] c = "{" ->
                  LET r == skipSpace(Tail(s)) IN
                  IF r # <<>> /\ Head(r) = "}" THEN JOk(JObj(<<>>), Tail(r))
                  ELSE parseMembers(r, <<>>)
           [] c = "\"" -> scanString(Tail(s), <<>>)
           [] c \in Digits -> scanNumber(s)
           [] c = "n" -> scanLiteral(s, S_null)
           [] c = "t" -> scanLiteral(s, S_true)
           [] c = "f" -> scanLiteral(s, S_false)
           [] OTHER -> JFail(FALSE)

\* The elements of an array after "[" or ",": a value, then "," or "]".
parseElements(s, acc) ==
    LET e == parseValue(s)
        r == skipSpace(e.rest)
    IN IF ~e.ok THEN e
       ELSE IF r = <<>> THEN JFail(TRUE)
       ELSE IF Head(r) = "]" THEN JOk(JArr(Append(acc, e.val)), Tail(r))
       ELSE IF Head(r) = "," THEN parseElements(Tail(r), Append(acc, e.val))
       ELSE JFail(FALSE)

\* The members of an object after "{" or ",": a string, ":", a value, then
\* "," or "}".  A repeated key overwrites the earlier member.
parseMembers(s0, acc) ==
    LET s == skipSpace(s0)
        k == IF s # <<>> /\ Head(s) = "\"" THEN scanString(Tail(s), <<>>)
             ELSE JFail(s = <<>>)
        r1 == skipSpace(k.rest)
        e == IF k.ok /\ r1 # <<>> /\ Head(r1) = ":" THEN parseValue(Tail(r1))
             ELSE JFail(k.ok /\ r1 = <<>>)
        r2 == skipSpace(e.rest)
    IN IF ~k.ok THEN k
       ELSE IF ~e.ok THEN e
       ELSE IF r2 = <<>> THEN JFail(TRUE)
       ELSE IF Head(r2) = "}"
            THEN JOk(JObj(mapPut(acc, k.val.v, e.val)), Tail(r2))
       ELSE IF Head(r2) = ","
            THEN parseMembers(Tail(r2), mapPut(acc, k.val.v, e.val))
       ELSE JFail(FALSE)

\* json.Unmarshal into an empty interface: one value, then only white space.
jsonUnmarshal(data) ==
    LET e == parseValue(data) IN
    IF ~e.ok THEN e
    ELSE IF skipSpace(e.rest) # <<>> THEN JFail(FALSE)
    ELSE e

\* The encoder's string literal: quote and backslash are escaped, and < is
\* written as \\u003c.
encodeBytesRaw(bytes) == bytes

RECURSIVE encodeBytes(_)
encodeBytes(bytes) ==
    IF bytes = <<>> THEN <<>>
    ELSE LET c == Head(bytes) IN
         (CASE c = "\"" -> <<"\\", "\"">>
            [] c = "\\" -> <<"\\", "\\">>
            [] c = "<"  -> <<"\\", "u", "0", "0", "3", "c">>
            [] OTHER    -> <<c>>)
         \o encodeBytes(Tail(bytes))

encodeString(bytes) == <<"\"">> \o encodeBytes(bytes) \o <<"\"">>

\* A line feed and the indentation of the given depth, two spaces a level.
RECURSIVE newline(_)
newline(depth) ==
    IF depth = 0 THEN <<"\n">> ELSE newline(depth - 1) \o <<" ", " ">>

RECURSIVE indentValue(_, _)
RECURSIVE indentElements(_, _)
RECURSIVE indentMembers(_, _)

\* json.MarshalIndent(v, "", "  ") at the given nesting depth.
indentValue(val, depth) ==
    CASE val.t = "num" -> val.v
      [] val.t = "str" -> encodeString(val.v)
      [] val.t = "lit" -> val.v
      [] val.t = "arr" ->
             IF val.v = <<>> THEN <<"[", "]">>
             ELSE <<"[">> \o indentElements(val.v, depth + 1)
                  \o newline(depth) \o <<"]">>
      [] OTHER ->
             IF val.v = <<>> THEN <<"{", "}">>
             ELSE <<"{">> \o indentMembers(val.v, depth + 1)
                  \o newline(depth) \o <<"}">>

indentElements(elems, depth) ==
    newline(depth) \o indentValue(Head(elems), depth)
    \o (IF Len(elems) > 1
        THEN <<",">> \o indentElements(Tail(elems), depth)
        ELSE <<>>)

indentMembers(mems, depth) ==
    newline(depth) \o encodeString(Head(mems).k) \o <<":", " ">>
    \o indentValue(Head(mems).val, depth)
    \o (IF Len(mems) > 1
        THEN <<",">> \o indentMembers(Tail(mems), depth)
        ELSE <<>>)

jsonMarshalIndent(val) == indentValue(val, 0)

\* The text of the decoder's error.
jsonErrorText(e) ==
    IF e.eof THEN "unexpected end of JSON input" ELSE "invalid character"

\* ------------------------------------------------------------------ block selector

Abs(n) == IF n < 0 THEN -n ELSE n

\* sort.Slice sorts fewer than MaxInsertion + 1 elements by insertion, which
\* keeps equal elements in slice order.
MaxInsertion == 12

\* The indices of the blocks whose [Start, End] holds the cursor.
containing(blocks, cursor) ==
    {i \in 1..Len(blocks) : cursor >= blocks[i].Start /\ cursor <= blocks[i].End}

lastContaining(blocks, cursor) ==
    CHOOSE i \in containing(blocks, cursor) :
        \A j \in containing(blocks, cursor) : j <= i

\* PickBlock, lines 608-612: the first block that holds the cursor.
firstContaining(blocks, cursor) ==
    CHOOSE i \in containing(blocks, cursor) :
        \A j \in containing(blocks, cursor) : i <= j

distanceFromEnd(b, cursor) == Abs(b.End - cursor)

\* PickBlock, lines 619-622: the candidate's dist.
distance(b, cursor) == Abs(b.Start - cursor)

\* The indices that sort.Slice by dist may leave in front.  Up to
\* MaxInsertion candidates it is the first of the smallest; a longer slice
\* is sorted by an unstable quicksort, and which of several smallest
\* candidates comes out in front depends on the slice and on the Go
\* release, so each of them is a possible outcome.
sortSliceFirst(dists) ==
    LET smallest == {i \in 1..Len(dists) :
                        \A j \in 1..Len(dists) : dists[i] <= dists[j]}
    IN IF Len(dists) <= MaxInsertion
       THEN {CHOOSE i \in smallest : \A j \in smallest : i <= j}
       ELSE smallest

PickBlockContainingOnly(blocks, cursor) ==
    IF containing(blocks, cursor) # {}
    THEN {firstContaining(blocks, cursor)}
    ELSE {0}

\* PickBlock: the indices of the blocks it may return, 0 standing for nil.
PickBlock(blocks, cursor) ==
    IF Len(blocks) = 0 THEN {0}
    ELSE IF containing(blocks, cursor) # {}
    THEN {firstContaining(blocks, cursor)}
    ELSE sortSliceFirst([i \in 1..Len(blocks) |-> distance(blocks[i], cursor)])

\* ------------------------------------------------------------------ inputs

Fence3 == <<BQ, BQ, BQ>>
Tilde3 == <<"~", "~", "~">>

\* A fenced block written with the given fence: the opening line with the
\* tag, the body, and the closing line.
FencedDoc(fence, tag, code) ==
    fence \o tag \o <<"\n">> \o code \o <<"\n">> \o fence \o <<"\n">>

\* The same block without its closing line.
OpenDoc(fence, tag, code) == fence \o tag \o <<"\n">> \o code \o <<"\n">>

S_x == <<"x">>
S_jsonGood == <<"[", "1", "]">>
S_jsonBad  == <<"[", "1">>

ShellTags  == {S_bash, <<"S","h">>, S_shell}
PythonTags == {S_python, <<"P","Y">>}
SqlTags    == {S_sql, <<"S","q","l">>}
JsonTags   == {S_json, <<"J","s","o","n">>}
OtherTags  == {<<"R","u","b","y">>, S_empty}

NoCfg == [PythonBin |-> S_empty, Shell |-> S_empty, SQLCmd |-> S_empty]

ShellCfgs  == {NoCfg, [NoCfg EXCEPT !.Shell = S_zsh],
               [NoCfg EXCEPT !.Shell = <<" ">> \o S_bash]}
PythonCfgs == {NoCfg, [NoCfg EXCEPT !.PythonBin = <<"p","y","3">>]}
SqlCfgs    == {NoCfg, [NoCfg EXCEPT !.SQLCmd = S_blank],
               [NoCfg EXCEPT !.SQLCmd = <<"\f">>],
               [NoCfg EXCEPT !.SQLCmd = <<"d","b"," ","-","q">>],
               [NoCfg EXCEPT !.SQLCmd = <<"#","x">>],
               [NoCfg EXCEPT !.SQLCmd = <<"'","d","b">>]}

\* One call of Run: the file's bytes (when it can be read) with the blocks
\* ParseBlocks finds in them, the cursor, the configuration and the host.
\* round and prev are used when an output is fed back as a new document.
In(readable, text, cursor, cfg, goos) ==
    [readable |-> readable, text |-> text, blocks |-> ParseBlocks(text),
     cursor |-> cursor, cfg |-> cfg, goos |-> goos,
     round |-> 0, prev |-> <<>>]

\* A json block followed by a line of text and a python block.
TwoBlockDoc ==
    FencedDoc(Fence3, S_json, S_jsonGood) \o <<"x", "\n">>
    \o FencedDoc(Fence3, S_py, S_x)

\* The calls of Run that are explored: an unreadable file, a document
\* without blocks, one-block documents of every tag, a shell block whose
\* closing fence is missing, and a two-block document in which the cursor
\* decides between a json and a python block.
Inputs ==
    {In(FALSE, <<>>, 0, NoCfg, "linux"), In(TRUE, <<"x", "\n">>, 0, NoCfg, "linux")}
    \cup {In(TRUE, FencedDoc(Fence3, t, S_x), 3, c, "linux") :
             t \in ShellTags, c \in ShellCfgs}
    \cup {In(TRUE, FencedDoc(Fence3, S_sh, S_x), 3,
              [NoCfg EXCEPT !.Shell = S_zsh], "windows")}
    \cup {In(TRUE, OpenDoc(Fence3, S_sh, S_x), 3, NoCfg, "linux")}
    \cup {In(TRUE, FencedDoc(Fence3, t, S_x), 3, c, "linux") :
             t \in PythonTags, c \in PythonCfgs}
    \cup {In(TRUE, FencedDoc(Fence3, t, S_x), 3, c, "linux") :
             t \in SqlTags, c \in SqlCfgs}
    \cup {In(TRUE, FencedDoc(Fence3, t, c), 3, NoCfg, "linux") :
             t \in JsonTags, c \in {S_jsonGood, S_jsonBad}}
    \cup {In(TRUE, FencedDoc(Fence3, t, S_x), 3, NoCfg, "linux") : t \in OtherTags}
    \cup {In(TRUE, TwoBlockDoc, k, NoCfg, "linux") : k \in {-1, 5, 17, 40}}

\* The sequences over S of length at most n.
SeqsUpTo(S, n) == UNION {[1..k -> S] : k \in 0..n}

\* The bytes of the json bodies explored exhaustively.
JsonBytes == {"[", "]", "{", "}", ",", "\"", "a", "1", "0", ".", " "}

\* Longer bodies: objects with unordered and repeated keys, nesting, white
\* space, escapes, the literals, and texts that break off.
JsonSamples ==
    {<<"{", "\"", "b", "\"", ":", "1", ",", "\"", "a", "\"", ":", "[", "1", ",",
       "\"", "<", "\"", "]", ",", "\"", "b", "\"", ":", "n", "u", "l", "l", "}">>,
     <<"{", "\"", "a", "\"", ":", "\n", "{", "\"", "a", "\"", ":", "[", "[", "]",
       ",", "1", ".", "1", "0", "]", "}", "}">>,
     <<"[", "t", "r", "u", "e", ",", "f", "a", "l", "s", "e", ",",
       "\"", "\\", "\\", "\\", "u", "0", "0", "3", "c", "\"", "]">>,
     <<"{", "\"", "a", "\"", ":", "1", ",", "}">>,
     <<"{", "\"", "a", "\"", ":", "t", "r", "u">>,
     <<"[", "\"", "a", "\n", "\"", "]">>}

JsonTexts == SeqsUpTo(JsonBytes, MaxJsonLen) \cup JsonSamples

\* Run on a document that holds one json block with the given body.
JsonInputs ==
    {In(TRUE, FencedDoc(Fence3, S_json, c), 3, NoCfg, "linux") : c \in JsonTexts}

LF   == <<"\n">>
CRLF == <<"\r", "\n">>

\* The lines a document given to ParseBlocks alone is made of: a blank
\* line, a line of text, and backtick and tilde fences without and with a
\* tag.
S_Py == <<"P", "y">>
TextLines  == {<<>>, S_x}
DocLines == TextLines \cup {Fence3, Fence3 \o S_Py, Tilde3, Tilde3 \o S_Py}

\* The lines, each but the last followed by the terminator eol, and the
\* last one too when final holds.
RECURSIVE JoinLines(_, _, _)
JoinLines(ls, eol, final) ==
    IF ls = <<>> THEN <<>>
    ELSE IF Len(ls) = 1 THEN Head(ls) \o (IF final THEN eol ELSE <<>>)
    ELSE Head(ls) \o eol \o JoinLines(Tail(ls), eol, final)

\* One call of ParseBlocks: the document's bytes, and how they were put
\* together.
ParseInputs ==
    {[text |-> JoinLines(ls, eol, final), lines |-> ls, eol |-> eol,
      final |-> final] :
        ls \in SeqsUpTo(DocLines, MaxLines), eol \in {LF, CRLF},
        final \in BOOLEAN}

\* A block as far as PickBlock reads it.
Span(start, end) == [Start |-> start, End |-> end]

Spans == UNION {{Span(a, b) : b \in a..MaxOff} : a \in 0..MaxOff}

\* n blocks of two bytes, four bytes apart.
SpacedBlocks(n) == [k \in 1..n |-> Span(4 * (k - 1), 4 * (k - 1) + 1)]

\* One call of PickBlock.
PickInputs ==
    {[blocks |-> bs, cursor |-> c] :
        bs \in SeqsUpTo(Spans, MaxBlocks), c \in (-1)..(MaxOff + 1)}
    \cup {[blocks |-> SpacedBlocks(n), cursor |-> c] :
        n \in {LongLen - 1, LongLen}, c \in (-1)..(4 * LongLen)}

\* ------------------------------------------------------------------ shlex

\* shlex.Split (github.com/google/shlex): the tokenizer's state machine run
\* over the whole string.  st is the tokenizer state, val the runes of the
\* token being read, parts the words found so far.  Comment tokens are
\* dropped; an unterminated quote or a trailing escape is an error.
\* shlex's spaceRunes: " \t\r\n"
spaceRunes == {" ", "\t", "\r", "\n"}

RECURSIVE shlexScan(_, _, _, _)
shlexScan(s, st, val, parts) ==
    IF s = <<>> THEN
        CASE st = "start"    -> [err |-> FALSE, parts |-> parts]
          [] st = "inWord"   -> [err |-> FALSE, parts |-> Append(parts, val)]
          [] st = "comment"  -> [err |-> FALSE, parts |-> parts]
          [] OTHER           -> [err |-> TRUE, parts |-> parts]
    ELSE LET c == Head(s)  r == Tail(s) IN
        CASE st = "start" ->
                 IF c \in spaceRunes THEN shlexScan(r, "start", <<>>, parts)
                 ELSE IF c = "\"" THEN shlexScan(r, "quotingEscaping", <<>>, parts)
                 ELSE IF c = "'" THEN shlexScan(r, "quoting", <<>>, parts)
                 ELSE IF c = "\\" THEN shlexScan(r, "escaping", <<>>, parts)
                 ELSE IF c = "#" THEN shlexScan(r, "comment", <<>>, parts)
                 ELSE shlexScan(r, "inWord", <<c>>, parts)
          [] st = "inWord" ->
                 IF c \in spaceRunes THEN shlexScan(r, "start", <<>>, Append(parts, val))
                 ELSE IF c = "\"" THEN shlexScan(r, "quotingEscaping", val, parts)
                 ELSE IF c = "'" THEN shlexScan(r, "quoting", val, parts)
                 ELSE IF c = "\\" THEN shlexScan(r, "escaping", val, parts)
                 ELSE shlexScan(r, "inWord", Append(val, c), parts)
          [] st = "escaping" -> shlexScan(r, "inWord", Append(val, c), parts)
          [] st = "escapingQuoted" ->
                 shlexScan(r, "quotingEscaping", Append(val, c), parts)
          [] st = "quotingEscaping" ->
                 IF c = "\"" THEN shlexScan(r, "inWord", val, parts)
                 ELSE IF c = "\\" THEN shlexScan(r, "escapingQuoted", val, parts)
                 ELSE shlexScan(r, "quotingEscaping", Append(val, c), parts)
          [] st = "quoting" ->
                 IF c = "'" THEN shlexScan(r, "inWord", val, parts)
                 ELSE shlexScan(r, "quoting", Append(val, c), parts)
          [] OTHER ->  \* comment
                 IF c = "\n" THEN shlexScan(r, "start", <<>>, parts)
                 ELSE shlexScan(r, "comment", val, parts)

shlexSplit(command) == shlexScan(command, "start", <<>>, <<>>)

\* ------------------------------------------------------------------ state

VARIABLES
    in,          \* the call: document, cursor, configuration, host OS
    pc,          \* where the call of Run stands
    parentErr,   \* the caller's ctx.Err() is non-nil (context.Canceled)
    block,       \* index of the selected block, 0 before selection
    backend,     \* "none", "shell", "python", "sql"
    candidates,  \* runShell: the candidate list
    candIdx,     \* runShell: index of the candidate being tried
    lastErr,     \* runShell: text of the last not-found error
    tctx,        \* timeoutCtx.Err(): "unset", "nil", "DeadlineExceeded", "Canceled"
    deadlinePassed, \* the deadline of the current timeoutCtx has passed
    proc,        \* child process: "none", "running", "exited", "reaped"
    status,      \* exit status of the child (-1: killed by a signal)
    gc,          \* a process started by the child: "none", "running", "exited"
    watcher,     \* exec's context watcher: "none", "waiting", "done"
    watchErr,    \* what the watcher reports: "nil", "ctx"
    out,         \* the bytes.Buffer that is Stdout and Stderr
    runErr,      \* what cmd.Run returned
    tmp,         \* runPython's temporary file: "none", "exists", "removed"
    res,         \* what Run returned
    fired,       \* history: deadline / cancel events of the current timeoutCtx
    spawned,     \* history: number of processes started by this call
    selfExit,    \* history: the child exited by itself
    attempts,    \* history: outcome of every launch attempt
    rmAlive      \* history: the temporary file was removed under a live child

ctlVars  == <<in, pc, block, backend, candidates, candIdx, lastErr>>
ctxVars  == <<parentErr, tctx, deadlinePassed, fired>>
procVars == <<proc, status, gc, watcher, watchErr, out, runErr, selfExit>>
histVars == <<spawned, attempts, rmAlive>>
vars == <<in, pc, parentErr, block, backend, candidates, candIdx, lastErr,
          tctx, deadlinePassed, proc, status, gc, watcher, watchErr, out,
          runErr, tmp, res, fired, spawned, selfExit, attempts, rmAlive>>

\* Exit statuses a child may end with on its own.
ExitStatuses == {0, 3, 124}

NoRes == [kind |-> "none", Language |-> <<>>, Output |-> <<>>,
          ExitCode |-> 0, BlockEnd |-> 0, err |-> "", errArg |-> <<>>]

\* return Result{}, err
RetErr(e) == [NoRes EXCEPT !.kind = "error", !.err = e]

\* return res, nil
RetRes(b, o) ==
    [kind |-> "result", Language |-> ToLower(b.Language), Output |-> o.Output,
     ExitCode |-> o.ExitCode, BlockEnd |-> b.End, err |-> "", errArg |-> <<>>]

Outcome(output, code) == [Output |-> output, ExitCode |-> code]

Fired(c) == c \in {"DeadlineExceeded", "Canceled"}

\* Text of an error of cmd.Run that is neither a context error nor an
\* *exec.ExitError.
ErrText(e) ==
    CASE e = "notfound" -> "executable file not found in $PATH"
      [] e = "other"    -> "permission denied"
      [] e = "ctx"      -> "context error"
      [] OTHER          -> "error"

\* The state before anything ran, but for the call and its context.
Entry ==
    /\ block = 0
    /\ backend = "none"
    /\ candidates = <<>>
    /\ candIdx = 0
    /\ lastErr = ""
    /\ tctx = "unset"
    /\ deadlinePassed = FALSE
    /\ proc = "none"
    /\ status = 0
    /\ gc = "none"
    /\ watcher = "none"
    /\ watchErr = "nil"
    /\ out = <<>>
    /\ runErr = "nil"
    /\ tmp = "none"
    /\ res = NoRes
    /\ fired = <<>>
    /\ spawned = 0
    /\ selfExit = FALSE
    /\ attempts = <<>>
    /\ rmAlive = FALSE

Init ==
    /\ in \in Inputs
    /\ pc = "Run"
    /\ parentErr \in BOOLEAN
    /\ Entry

\* ------------------------------------------------------------------ contexts

\* context.WithTimeout(ctx, executionTimeout): a child of a context that is
\* already cancelled is cancelled from the start.
WithTimeout(parentCancelled) == IF parentCancelled THEN "Canceled" ELSE "nil"

\* A context's error is set once: the first of the deadline and the parent's
\* cancellation decides it.
ctxAfter(cur, ev) ==
    IF cur # "nil" THEN cur
    ELSE IF ev = "deadline" THEN "DeadlineExceeded" ELSE "Canceled"

\* The caller's cancellation signal fires (signal.NotifyContext in main).
Cancel ==
    /\ pc # "done"
    /\ ~parentErr
    /\ parentErr' = TRUE
    /\ tctx' = ctxAfter(tctx, "cancel")
    /\ fired' = Append(fired, [ev |-> "cancel", proc |-> proc])
    /\ UNCHANGED <<ctlVars, procVars, histVars, deadlinePassed, tmp, res>>

\* executionTimeout has elapsed since the current timeoutCtx was made.
DeadlineExpire ==
    /\ pc \in {"Start", "Wait", "Recv", "Pipe", "classify"}
    /\ ~deadlinePassed
    /\ deadlinePassed' = TRUE
    /\ tctx' = ctxAfter(tctx, "deadline")
    /\ fired' = Append(fired, [ev |-> "deadline", proc |-> proc])
    /\ UNCHANGED <<ctlVars, procVars, histVars, parentErr, tmp, res>>

\* What every backend does before cmd.Run: a fresh timeoutCtx, a fresh
\* command and a fresh capture buffer.
NewCmd ==
    /\ tctx' = WithTimeout(parentErr)
    /\ deadlinePassed' = FALSE
    /\ fired' = IF parentErr THEN <<[ev |-> "cancel", proc |-> "none"]>> ELSE <<>>
    /\ proc' = "none" /\ status' = 0 /\ gc' = "none"
    /\ watcher' = "none" /\ watchErr' = "nil"
    /\ out' = <<>> /\ runErr' = "nil" /\ selfExit' = FALSE

\* ------------------------------------------------------------------ Run

\* Run, lines 448-450: a context that is already cancelled is returned as
\* the error.
RunCtxCheck ==
    /\ pc = "Run"
    /\ IF parentErr
       THEN /\ res' = RetErr("context canceled")
            /\ pc' = "done"
       ELSE /\ pc' = "ReadFile"
            /\ UNCHANGED res
    /\ UNCHANGED <<in, block, backend, candidates, candIdx, lastErr,
                   ctxVars, procVars, histVars, tmp>>

\* Mutant of backendOf: a tag without a backend is given to the shell.
backendOrShell(lang) ==
    CASE lang \in {S_python, S_py} -> "python"
      [] lang = S_json             -> "json"
      [] lang = S_sql              -> "sql"
      [] OTHER                     -> "shell"

\* The language switch of Run on the lower-cased tag.
backendOf(lang) ==
    CASE lang \in {S_bash, S_sh, S_shell} -> "shell"
      [] lang \in {S_python, S_py}        -> "python"
      [] lang = S_json                    -> "json"
      [] lang = S_sql                     -> "sql"
      [] OTHER                            -> "unsupported"

\* prettyJSON: the decoder's error, or the decoded value encoded with
\* two-space indentation.
prettyJSON(input) ==
    LET e == jsonUnmarshal(input) IN
    IF ~e.ok THEN [ok |-> FALSE, text |-> <<jsonErrorText(e)>>]
    ELSE [ok |-> TRUE, text |-> jsonMarshalIndent(e.val)]

\* Run, lines 475-483: the error's text with exit code 1, or the text with
\* exit code 0.
jsonOutcome(code) ==
    LET p == prettyJSON(code) IN
    IF p.ok THEN Outcome(p.text, 0) ELSE Outcome(p.text, 1)

switchLangRaw(b) == b.Language

\* Run, line 464: the language the switch works on.
switchLang(b) == ToLower(b.Language)

sqlUnsupportedUntrimmed(cfg) == cfg.SQLCmd = <<>>

\* Run, line 485: the sql backend is refused when no command is configured.
sqlUnsupported(cfg) == TrimSpace(cfg.SQLCmd) = <<>>

unsupportedLanguageFolded(b, lang) ==
    [RetErr("unsupported language") EXCEPT !.errArg = lang]

\* Run, line 492: fmt.Errorf("unsupported language: %s", block.Language);
\* errArg is the text put in place of %s.
unsupportedLanguage(b, lang) ==
    [RetErr("unsupported language") EXCEPT !.errArg = b.Language]

\* Run, lines 451-493: read the file, parse, select, and enter the backend.
\* in.blocks is ParseBlocks of the bytes read (line 455).
RunReadFile ==
    /\ pc = "ReadFile"
    /\ \E k \in PickBlock(in.blocks, in.cursor) :
       LET blocks == in.blocks
           b == blocks[k]
           lang == switchLang(b)
           be == backendOf(lang)
       IN
       IF ~in.readable THEN
            /\ res' = RetErr("read") /\ pc' = "done"
            /\ UNCHANGED <<block, backend, candidates, candIdx>>
       ELSE IF Len(blocks) = 0 THEN
            /\ res' = RetErr("no fenced code block found") /\ pc' = "done"
            /\ UNCHANGED <<block, backend, candidates, candIdx>>
       ELSE IF k = 0 THEN
            /\ res' = RetErr("unable to select code block") /\ pc' = "done"
            /\ UNCHANGED <<block, backend, candidates, candIdx>>
       ELSE
            /\ block' = k
            /\ CASE be = "shell" ->
                      /\ backend' = "shell" /\ pc' = "runShell"
                      /\ candidates' = shellCandidates(in.cfg.Shell, in.goos)
                      /\ candIdx' = 1
                      /\ UNCHANGED res
                 [] be = "python" ->
                      /\ backend' = "python" /\ pc' = "runPython"
                      /\ UNCHANGED <<candidates, candIdx, res>>
                 [] be = "json" ->
                      /\ backend' = "json" /\ pc' = "done"
                      /\ res' = RetRes(b, jsonOutcome(b.Code))
                      /\ UNCHANGED <<candidates, candIdx>>
                 [] be = "sql" ->
                      IF sqlUnsupported(in.cfg)
                      THEN /\ res' = RetErr("sql execution unsupported without runblock.sql_cmd")
                           /\ pc' = "done"
                           /\ UNCHANGED <<backend, candidates, candIdx>>
                      ELSE /\ backend' = "sql" /\ pc' = "runWithCmd"
                           /\ UNCHANGED <<candidates, candIdx, res>>
                 [] OTHER ->
                      /\ res' = unsupportedLanguage(b, lang)
                      /\ pc' = "done"
                      /\ UNCHANGED <<backend, candidates, candIdx>>
    /\ UNCHANGED <<in, lastErr, ctxVars, procVars, histVars, tmp>>

\* ------------------------------------------------------------------ os/exec

\* cmd.Run, first half (Start): a binary that cannot be looked up or
\* launched is an error; a context that is already done is its error; else
\* the child runs, writing into the capture pipe, watched by the context
\* watcher.
cmdStart ==
    /\ pc = "Start"
    /\ \E k \in {"ok", "notfound", "other"} :
          IF k # "ok" THEN
              /\ runErr' = k /\ pc' = "classify"
              /\ attempts' = Append(attempts, k)
              /\ UNCHANGED <<proc, watcher, spawned>>
          ELSE IF Fired(tctx) THEN
              /\ runErr' = "ctx" /\ pc' = "classify"
              /\ attempts' = Append(attempts, "ctx")
              /\ UNCHANGED <<proc, watcher, spawned>>
          ELSE
              /\ proc' = "running" /\ watcher' = "waiting" /\ pc' = "Wait"
              /\ spawned' = spawned + 1
              /\ attempts' = Append(attempts, "ran")
              /\ UNCHANGED runErr
    /\ UNCHANGED <<in, block, backend, candidates, candIdx, lastErr, ctxVars,
                   status, gc, watchErr, out, selfExit, rmAlive, tmp, res>>

\* The child writes to its stdout or stderr.
ChildWrite ==
    /\ proc = "running"
    /\ Len(out) < MaxOut
    /\ out' = Append(out, "c")
    /\ UNCHANGED <<ctlVars, ctxVars, histVars, proc, status, gc, watcher,
                   watchErr, runErr, selfExit, tmp, res>>

\* The child starts a process of its own, which inherits the capture pipe.
ChildFork ==
    /\ proc = "running"
    /\ gc = "none"
    /\ gc' = "running"
    /\ UNCHANGED <<ctlVars, ctxVars, histVars, proc, status, watcher,
                   watchErr, out, runErr, selfExit, tmp, res>>

\* The child ends by itself.
ChildExit ==
    /\ proc = "running"
    /\ \E st \in ExitStatuses : status' = st
    /\ proc' = "exited"
    /\ selfExit' = TRUE
    /\ UNCHANGED <<ctlVars, ctxVars, histVars, gc, watcher, watchErr, out,
                   runErr, tmp, res>>

\* The process started by the child writes to the inherited pipe.
GrandchildWrite ==
    /\ pc \in {"Wait", "Recv", "Pipe"}
    /\ gc = "running"
    /\ Len(out) < MaxOut
    /\ out' = Append(out, "g")
    /\ UNCHANGED <<ctlVars, ctxVars, histVars, proc, status, gc, watcher,
                   watchErr, runErr, selfExit, tmp, res>>

\* The process started by the child ends (nothing in the code makes it).
GrandchildExit ==
    /\ pc \in {"Wait", "Recv", "Pipe"}
    /\ gc = "running"
    /\ gc' = "exited"
    /\ UNCHANGED <<ctlVars, ctxVars, histVars, proc, status, watcher,
                   watchErr, out, runErr, selfExit, tmp, res>>

\* exec's watchCtx goroutine: once the context is done it calls
\* Process.Kill.  A child that was already waited for yields
\* os.ErrProcessDone and no error is reported; otherwise the signal is sent
\* (also to a child that exited but is not yet waited for) and the
\* context's error is reported.
watchCtx ==
    /\ watcher = "waiting"
    /\ Fired(tctx)
    /\ watcher' = "done"
    /\ IF proc = "reaped"
       THEN /\ watchErr' = "nil"
            /\ UNCHANGED <<proc, status>>
       ELSE /\ watchErr' = "ctx"
            /\ proc' = "exited"
            /\ status' = IF proc = "running" THEN -1 ELSE status
    /\ UNCHANGED <<ctlVars, ctxVars, histVars, gc, out, runErr, selfExit,
                   tmp, res>>

\* cmd.Wait, Process.Wait: the exited child is waited for.
cmdWait ==
    /\ pc = "Wait"
    /\ proc = "exited"
    /\ proc' = "reaped"
    /\ pc' = "Recv"
    /\ UNCHANGED <<in, block, backend, candidates, candIdx, lastErr, ctxVars,
                   histVars, status, gc, watcher, watchErr, out, runErr,
                   selfExit, tmp, res>>

\* cmd.Wait, <-c.ctxResult: the watcher either hands over an empty result
\* because Wait got there first, or has made its report already.
cmdRecv ==
    /\ pc = "Recv"
    /\ \/ /\ watcher = "waiting"
          /\ watcher' = "done"
          /\ UNCHANGED watchErr
       \/ /\ watcher = "done"
          /\ UNCHANGED <<watcher, watchErr>>
    /\ pc' = "Pipe"
    /\ UNCHANGED <<in, block, backend, candidates, candIdx, lastErr, ctxVars,
                   histVars, proc, status, gc, out, runErr, selfExit, tmp, res>>

\* The error cmd.Wait returns: a failed exit first, else the watcher's report.
waitErr(st, werr) ==
    IF st # 0 THEN "exit" ELSE IF werr = "ctx" THEN "ctx" ELSE "nil"

\* cmd.Wait, awaitGoroutines: with WaitDelay zero Wait returns only when the
\* copying goroutine saw EOF, that is when every holder of the pipe's write
\* end is gone.
awaitGoroutines ==
    /\ pc = "Pipe"
    /\ gc # "running"
    /\ runErr' = waitErr(status, watchErr)
    /\ pc' = "classify"
    /\ UNCHANGED <<in, block, backend, candidates, candIdx, lastErr, ctxVars,
                   histVars, proc, status, gc, watcher, watchErr, out,
                   selfExit, tmp, res>>

\* ------------------------------------------------------------------ shell backend

\* runShellWithBinary after cmd.Run: output, exit code and error.
runShellWithBinaryResult(err, ctxErr, st, o) ==
    IF err = "nil" THEN [Output |-> o, ExitCode |-> 0, err |-> "nil"]
    ELSE IF ctxErr = "DeadlineExceeded"
    THEN [Output |-> o, ExitCode |-> 124, err |-> "timeout"]
    ELSE IF ctxErr = "Canceled"
    THEN [Output |-> o, ExitCode |-> 130, err |-> "canceled"]
    ELSE IF err = "exit" THEN [Output |-> o, ExitCode |-> st, err |-> "nil"]
    ELSE [Output |-> o, ExitCode |-> 1, err |-> err]

\* isNotFoundErr: exec.ErrNotFound, or a *PathError for os.ErrNotExist.
isNotFoundErr(e) == e = "notfound"

ShellErrText(e) ==
    CASE e = "timeout"  -> "command timed out after 30s"
      [] e = "canceled" -> "context canceled"
      [] e = "empty"    -> "empty shell"
      [] OTHER          -> ErrText(e)

\* Mutant of runShellStep: the text of an earlier not-found error is put in
\* front of the output of the candidate that ran.
runShellStepLeaky(r, last) ==
    IF r.err = "nil"
    THEN [do |-> "return",
          outcome |-> Outcome((IF last = "" THEN <<>> ELSE <<last, "\n">>)
                              \o r.Output, r.ExitCode)]
    ELSE IF r.err = "notfound"
    THEN [do |-> "continue", outcome |-> Outcome(<<>>, 0)]
    ELSE [do |-> "return",
          outcome |-> Outcome(r.Output \o <<"\n", ShellErrText(r.err)>>, 1)]

\* runShell's loop body on the triple r that runShellWithBinary returned
\* (last is lastErr, which the loop body only writes): "return" with the
\* outcome, or "continue" with the next candidate.
runShellStep(r, last) ==
    IF r.err = "nil"
    THEN [do |-> "return", outcome |-> Outcome(r.Output, r.ExitCode)]
    ELSE IF isNotFoundErr(r.err)
    THEN [do |-> "continue", outcome |-> Outcome(<<>>, 0)]
    ELSE [do |-> "return",
          outcome |-> Outcome(r.Output \o <<"\n", ShellErrText(r.err)>>, 1)]

\* runShell after the loop: every candidate was missing.
runShellExhausted(last) ==
    Outcome(<<IF last = "" THEN "no shell found to run block" ELSE last>>, 1)

\* runShell's loop head and runShellWithBinary up to cmd.Run.
runShellNext ==
    /\ pc = "runShell"
    /\ IF candIdx > Len(candidates) THEN
            /\ res' = RetRes(in.blocks[block], runShellExhausted(lastErr))
            /\ pc' = "done"
            /\ UNCHANGED <<ctxVars, procVars>>
       ELSE IF TrimSpace(candidates[candIdx]) = <<>> THEN
            /\ res' = RetRes(in.blocks[block],
                             Outcome(<<"\n", ShellErrText("empty")>>, 1))
            /\ pc' = "done"
            /\ UNCHANGED <<ctxVars, procVars>>
       ELSE /\ NewCmd
            /\ pc' = "Start"
            /\ UNCHANGED <<parentErr, res>>
    /\ UNCHANGED <<in, block, backend, candidates, candIdx, lastErr,
                   histVars, tmp>>

\* runShellWithBinary from cmd.Run's return on, and runShell's handling of
\* what it returned.
runShellClassify ==
    /\ pc = "classify"
    /\ backend = "shell"
    /\ LET r  == runShellWithBinaryResult(runErr, tctx, status, out)
           st == runShellStep(r, lastErr)
       IN IF st.do = "continue"
          THEN /\ lastErr' = ShellErrText(r.err)
               /\ candIdx' = candIdx + 1
               /\ pc' = "runShell"
               /\ UNCHANGED res
          ELSE /\ res' = RetRes(in.blocks[block], st.outcome)
               /\ pc' = "done"
               /\ UNCHANGED <<lastErr, candIdx>>
    /\ UNCHANGED <<in, block, backend, candidates, ctxVars, procVars,
                   histVars, tmp>>

\* ------------------------------------------------------------------ python backend

\* runPython after cmd.Run: output and exit code.
runPythonResult(err, ctxErr, st, o) ==
    IF err = "nil" THEN Outcome(o, 0)
    ELSE IF ctxErr = "DeadlineExceeded"
    THEN Outcome(o \o <<"\n", "command timed out">>, 124)
    ELSE IF ctxErr = "Canceled"
    THEN Outcome(o \o <<"\n", "command canceled">>, 130)
    ELSE IF err = "exit" THEN Outcome(o, st)
    ELSE Outcome(o \o <<"\n", ErrText(err)>>, 1)

\* Mutant of deferRemove: the removal is deferred only after the file was
\* written and closed, so the write and close failures leave the file.
deferRemoveLate(path, t) == IF path = "run" /\ t = "exists" THEN "removed" ELSE t

\* The deferred os.Remove(tmpName), registered right after CreateTemp: it
\* runs on every return that follows, whatever path leads there (path is
\* "write", "close" or "run").
deferRemove(path, t) == IF t = "exists" THEN "removed" ELSE t

\* os.CreateTemp.
runPythonCreate ==
    /\ pc = "runPython"
    /\ \/ /\ res' = RetRes(in.blocks[block], Outcome(<<"create temp failed">>, 1))
          /\ pc' = "done"
          /\ UNCHANGED tmp
       \/ /\ tmp' = "exists"
          /\ pc' = "pyWrite"
          /\ UNCHANGED res
    /\ UNCHANGED <<in, block, backend, candidates, candIdx, lastErr,
                   ctxVars, procVars, histVars>>

\* tmp.WriteString and tmp.Close; either may fail, which ends runPython.
runPythonWrite ==
    /\ pc = "pyWrite"
    /\ \E w \in {"ok", "write", "close"} :
          IF w = "ok"
          THEN /\ NewCmd
               /\ pc' = "Start"
               /\ UNCHANGED <<tmp, res, rmAlive>>
          ELSE /\ res' = RetRes(in.blocks[block], Outcome(<<w, "failed">>, 1))
               /\ tmp' = deferRemove(w, tmp)
               /\ rmAlive' = (rmAlive \/ proc \in {"running", "exited"})
               /\ pc' = "done"
               /\ UNCHANGED <<tctx, deadlinePassed, fired, procVars>>
    /\ UNCHANGED <<in, block, backend, candidates, candIdx, lastErr,
                   parentErr, spawned, attempts>>

\* runPython from cmd.Run's return on, with the deferred removal.
runPythonClassify ==
    /\ pc = "classify"
    /\ backend = "python"
    /\ res' = RetRes(in.blocks[block], runPythonResult(runErr, tctx, status, out))
    /\ tmp' = deferRemove("run", tmp)
    /\ rmAlive' = (rmAlive \/ proc \in {"running", "exited"})
    /\ pc' = "done"
    /\ UNCHANGED <<in, block, backend, candidates, candIdx, lastErr, ctxVars,
                   procVars, spawned, attempts>>

\* ------------------------------------------------------------------ sql backend

\* runWithCmd after cmd.Run: output and exit code.
runWithCmdResult(err, ctxErr, st, o) ==
    IF err = "nil" THEN Outcome(o, 0)
    ELSE IF ctxErr = "DeadlineExceeded"
    THEN Outcome(o \o <<"\n", "command timed out">>, 124)
    ELSE IF ctxErr = "Canceled"
    THEN Outcome(o \o <<"\n", "command canceled">>, 130)
    ELSE IF err = "exit" THEN Outcome(o, st)
    ELSE Outcome(o \o <<"\n", ErrText(err)>>, 1)

\* runWithCmd up to cmd.Run: the command is tokenized.
runWithCmdSplit ==
    /\ pc = "runWithCmd"
    /\ LET sp == shlexSplit(in.cfg.SQLCmd) IN
       IF sp.err THEN
            /\ res' = RetRes(in.blocks[block],
                             Outcome(<<"invalid command: ", "EOF found">>, 1))
            /\ pc' = "done"
            /\ UNCHANGED <<ctxVars, procVars>>
       ELSE IF Len(sp.parts) = 0 THEN
            /\ res' = RetRes(in.blocks[block], Outcome(<<"invalid command">>, 1))
            /\ pc' = "done"
            /\ UNCHANGED <<ctxVars, procVars>>
       ELSE /\ NewCmd
            /\ pc' = "Start"
            /\ UNCHANGED <<parentErr, res>>
    /\ UNCHANGED <<in, block, backend, candidates, candIdx, lastErr,
                   histVars, tmp>>

runWithCmdClassify ==
    /\ pc = "classify"
    /\ backend = "sql"
    /\ res' = RetRes(in.blocks[block], runWithCmdResult(runErr, tctx, status, out))
    /\ pc' = "done"
    /\ UNCHANGED <<in, block, backend, candidates, candIdx, lastErr, ctxVars,
                   procVars, histVars, tmp>>

\* ------------------------------------------------------------------ specification

Next ==
    \/ Cancel
    \/ DeadlineExpire
    \/ RunCtxCheck
    \/ RunReadFile
    \/ runShellNext
    \/ runShellClassify
    \/ runPythonCreate
    \/ runPythonWrite
    \/ runPythonClassify
    \/ runWithCmdSplit
    \/ runWithCmdClassify
    \/ cmdStart
    \/ ChildWrite
    \/ ChildFork
    \/ ChildExit
    \/ GrandchildWrite
    \/ GrandchildExit
    \/ watchCtx
    \/ cmdWait
    \/ cmdRecv
    \/ awaitGoroutines

Spec == Init /\ [][Next]_vars

\* The steps of the program itself: the goroutine of Run and exec's watcher
\* goroutine are scheduled, and run when they can.  Nothing makes a
\* process write, fork or end by itself, and nothing makes the caller
\* cancel; the timer of a timeoutCtx does fire.
\* The output of a json block, put back into a document as a json block,
\* is given to Run again.
Reformat ==
    /\ pc = "done" /\ backend = "json" /\ in.round = 0
    /\ res.kind = "result" /\ res.ExitCode = 0
    /\ in' = [In(TRUE, FencedDoc(Fence3, S_json, res.Output), 3, in.cfg, in.goos)
                 EXCEPT !.round = 1, !.prev = res.Output]
    /\ pc' = "Run" /\ block' = 0 /\ backend' = "none" /\ res' = NoRes
    /\ UNCHANGED <<candidates, candIdx, lastErr, ctxVars, procVars, histVars, tmp>>

\* ------------------------------------------------------------------ two invocations

\* Two calls of Run on python blocks, running concurrently on one host.
\* Every variable that belongs to one call is here a function of the call;
\* tmp holds the host's temporary directory, which the calls share, and the
\* name each call got from os.CreateTemp; attempts is the history of the
\* file operations.  cmd.Run is taken step by step as in the single call;
\* the interpreter starts no process of its own here, and proc has the
\* further value "opened" for an interpreter that has opened its file.
Calls == {1, 2}

TempNames == 1..MaxNames

\* No file under a name.
NoFile == [owner |-> 0, content |-> <<>>]

\* A file of another program.
ForeignFile == [owner |-> 3, content |-> <<"z">>]

\* Mutant of createTempNames: the file is opened without O_EXCL, so a name
\* in use is taken again.
createTempAnyName(dir) == TempNames

\* os.CreateTemp opens with O_CREATE|O_EXCL and draws a new name when the
\* name exists: it returns only a name no file had.
createTempNames(dir) == {n \in TempNames : dir[n] = NoFile}

\* The interpreter started as "python <tmpName>": it opens the file by name
\* and what it prints depends on the text it finds there.
pythonRuns(file) ==
    IF file = NoFile
    THEN [out |-> <<"can't open file">>, status |-> 2]
    ELSE [out |-> <<"ran">> \o file.content, status |-> 0]

ConcInput(code) == In(TRUE, FencedDoc(Fence3, S_py, code), 0, NoCfg, "linux")

ConcCodes == {S_x, <<"y">>}

ConcInit ==
    /\ in \in [Calls -> {ConcInput(c) : c \in ConcCodes}]
    /\ pc = [i \in Calls |-> "runPython"]
    /\ tmp \in {[dir |-> d, name |-> [i \in Calls |-> 0]] :
                  d \in {[n \in TempNames |-> NoFile],
                         [n \in TempNames |-> IF n = 1 THEN ForeignFile ELSE NoFile]}}
    /\ block = [i \in Calls |-> 1]
    /\ backend = [i \in Calls |-> "python"]
    /\ out = [i \in Calls |-> <<>>]
    /\ status = [i \in Calls |-> 0]
    /\ runErr = [i \in Calls |-> "nil"]
    /\ proc = [i \in Calls |-> "none"]
    /\ res = [i \in Calls |-> NoRes]
    /\ attempts = {}
    /\ parentErr = FALSE
    /\ candidates = <<>>
    /\ candIdx = 0
    /\ lastErr = ""
    /\ tctx = [i \in Calls |-> "unset"]
    /\ deadlinePassed = FALSE
    /\ gc = "none"
    /\ watcher = [i \in Calls |-> "none"]
    /\ watchErr = [i \in Calls |-> "nil"]
    /\ fired = <<>>
    /\ spawned = 0
    /\ selfExit = [i \in Calls |-> FALSE]
    /\ rmAlive = FALSE

concRest == <<in, parentErr, block, backend, candidates, candIdx, lastErr,
              deadlinePassed, gc, fired, spawned, rmAlive>>

concProc == <<proc, status, out, runErr, watcher, watchErr, selfExit>>

\* A file operation of call i on the file that has the given owner.
FileOp(i, op, owner) == [call |-> i, op |-> op, owner |-> owner]

\* tmp, err := os.CreateTemp("", "margin-run-*.py") of call i.
concCreateTemp(i) ==
    /\ pc[i] = "runPython"
    /\ \/ /\ res' = [res EXCEPT ![i] =
                        RetRes(in[i].blocks[1], Outcome(<<"create temp failed">>, 1))]
          /\ pc' = [pc EXCEPT ![i] = "done"]
          /\ UNCHANGED <<tmp, attempts>>
       \/ \E n \in createTempNames(tmp.dir) :
             /\ tmp' = [dir |-> [tmp.dir EXCEPT ![n] = [owner |-> i, content |-> <<>>]],
                        name |-> [tmp.name EXCEPT ![i] = n]]
             /\ attempts' = attempts \cup {FileOp(i, "create", tmp.dir[n].owner)}
             /\ pc' = [pc EXCEPT ![i] = "pyWrite"]
             /\ UNCHANGED res
    /\ UNCHANGED <<concRest, concProc, tctx>>

\* os.Remove(tmpName) of call i: the name is unlinked, whoever made the file.
concRemove(i, dir) == [dir EXCEPT ![tmp.name[i]] = NoFile]

\* tmp.WriteString(code) and tmp.Close() of call i. The write goes through
\* the descriptor, to the file the call created, also when that file no
\* longer has its name.
concWrite(i) ==
    /\ pc[i] = "pyWrite"
    /\ LET n == tmp.name[i]
           code == in[i].blocks[1].Code
       IN \E w \in {"ok", "write", "close"} :
          IF w = "ok"
          THEN /\ tmp' = [tmp EXCEPT !.dir =
                            IF tmp.dir[n].owner = i
                            THEN [tmp.dir EXCEPT ![n].content = code]
                            ELSE tmp.dir]
               /\ attempts' = attempts \cup {FileOp(i, "write", i)}
               /\ tctx' = [tctx EXCEPT ![i] = WithTimeout(FALSE)]
               /\ pc' = [pc EXCEPT ![i] = "Start"]
               /\ UNCHANGED res
          ELSE /\ res' = [res EXCEPT ![i] =
                            RetRes(in[i].blocks[1], Outcome(<<w, "failed">>, 1))]
               /\ tmp' = [tmp EXCEPT !.dir = concRemove(i, tmp.dir)]
               /\ attempts' = attempts \cup {FileOp(i, "remove", tmp.dir[n].owner)}
               /\ pc' = [pc EXCEPT ![i] = "done"]
               /\ UNCHANGED tctx
    /\ UNCHANGED <<concRest, concProc>>

\* cmd.Run of call i, cmd.Start: the interpreter is not found, or the
\* context is done already, or the interpreter is started.
concStart(i) ==
    /\ pc[i] = "Start"
    /\ \E k \in {"ok", "notfound", "other"} :
          IF k # "ok" THEN
              /\ runErr' = [runErr EXCEPT ![i] = k]
              /\ pc' = [pc EXCEPT ![i] = "classify"]
              /\ UNCHANGED <<proc, watcher>>
          ELSE IF Fired(tctx[i]) THEN
              /\ runErr' = [runErr EXCEPT ![i] = "ctx"]
              /\ pc' = [pc EXCEPT ![i] = "classify"]
              /\ UNCHANGED <<proc, watcher>>
          ELSE
              /\ proc' = [proc EXCEPT ![i] = "running"]
              /\ watcher' = [watcher EXCEPT ![i] = "waiting"]
              /\ pc' = [pc EXCEPT ![i] = "Wait"]
              /\ UNCHANGED runErr
    /\ UNCHANGED <<concRest, tmp, res, attempts, tctx, status, out, watchErr,
                   selfExit>>

\* The deadline of call i's timeoutCtx passes, or its caller cancels.
concFire(i) ==
    /\ pc[i] \in {"Start", "Wait", "Recv", "Pipe", "classify"}
    /\ tctx[i] = "nil"
    /\ \E ev \in {"deadline", "cancel"} :
          tctx' = [tctx EXCEPT ![i] = ctxAfter(tctx[i], ev)]
    /\ UNCHANGED <<concRest, tmp, res, attempts, pc, proc, status, out, runErr,
                   watcher, watchErr, selfExit>>

\* The interpreter of call i opens the file named tmpName, whatever file
\* has that name at this moment, and prints.
concOpen(i) ==
    /\ proc[i] = "running"
    /\ LET file == tmp.dir[tmp.name[i]]
           r == pythonRuns(file)
       IN /\ out' = [out EXCEPT ![i] = r.out]
          /\ status' = [status EXCEPT ![i] = r.status]
          /\ attempts' = attempts \cup {FileOp(i, "exec", file.owner)}
    /\ proc' = [proc EXCEPT ![i] = "opened"]
    /\ UNCHANGED <<concRest, tmp, res, pc, tctx, runErr, watcher, watchErr,
                   selfExit>>

\* The interpreter of call i ends by itself.
concExit(i) ==
    /\ proc[i] = "opened"
    /\ proc' = [proc EXCEPT ![i] = "exited"]
    /\ selfExit' = [selfExit EXCEPT ![i] = TRUE]
    /\ UNCHANGED <<concRest, tmp, res, attempts, pc, tctx, status, out, runErr,
                   watcher, watchErr>>

\* exec's watchCtx goroutine of call i (see watchCtx).
concWatch(i) ==
    /\ watcher[i] = "waiting"
    /\ Fired(tctx[i])
    /\ watcher' = [watcher EXCEPT ![i] = "done"]
    /\ IF proc[i] = "reaped"
       THEN /\ watchErr' = [watchErr EXCEPT ![i] = "nil"]
            /\ UNCHANGED <<proc, status>>
       ELSE /\ watchErr' = [watchErr EXCEPT ![i] = "ctx"]
            /\ proc' = [proc EXCEPT ![i] = "exited"]
            /\ status' = [status EXCEPT ![i] =
                             IF proc[i] \in {"running", "opened"} THEN -1
                             ELSE status[i]]
    /\ UNCHANGED <<concRest, tmp, res, attempts, pc, tctx, out, runErr, selfExit>>

\* cmd.Wait of call i, Process.Wait: the exited interpreter is waited for.
concWait(i) ==
    /\ pc[i] = "Wait"
    /\ proc[i] = "exited"
    /\ proc' = [proc EXCEPT ![i] = "reaped"]
    /\ pc' = [pc EXCEPT ![i] = "Recv"]
    /\ UNCHANGED <<concRest, tmp, res, attempts, tctx, status, out, runErr,
                   watcher, watchErr, selfExit>>

\* cmd.Wait of call i, <-c.ctxResult (see cmdRecv).
concRecv(i) ==
    /\ pc[i] = "Recv"
    /\ watcher' = [watcher EXCEPT ![i] = "done"]
    /\ pc' = [pc EXCEPT ![i] = "Pipe"]
    /\ UNCHANGED <<concRest, tmp, res, attempts, tctx, proc, status, out,
                   runErr, watchErr, selfExit>>

\* cmd.Wait of call i, awaitGoroutines: the interpreter was the only holder
\* of the pipe in these runs.
concAwait(i) ==
    /\ pc[i] = "Pipe"
    /\ runErr' = [runErr EXCEPT ![i] = waitErr(status[i], watchErr[i])]
    /\ pc' = [pc EXCEPT ![i] = "classify"]
    /\ UNCHANGED <<concRest, tmp, res, attempts, tctx, proc, status, out,
                   watcher, watchErr, selfExit>>

\* runPython of call i from cmd.Run's return on, with the deferred removal.
concReturn(i) ==
    /\ pc[i] = "classify"
    /\ res' = [res EXCEPT ![i] =
                 RetRes(in[i].blocks[1],
                        runPythonResult(runErr[i], tctx[i], status[i], out[i]))]
    /\ tmp' = [tmp EXCEPT !.dir = concRemove(i, tmp.dir)]
    /\ attempts' = attempts \cup {FileOp(i, "remove", tmp.dir[tmp.name[i]].owner)}
    /\ pc' = [pc EXCEPT ![i] = "done"]
    /\ UNCHANGED <<concRest, concProc, tctx>>

ConcNext ==
    \/ \E i \in Calls : concCreateTemp(i)
    \/ \E i \in Calls : concWrite(i)
    \/ \E i \in Calls : concStart(i)
    \/ \E i \in Calls : concFire(i)
    \/ \E i \in Calls : concOpen(i)
    \/ \E i \in Calls : concExit(i)
    \/ \E i \in Calls : concWatch(i)
    \/ \E i \in Calls : concWait(i)
    \/ \E i \in Calls : concRecv(i)
    \/ \E i \in Calls : concAwait(i)
    \/ \E i \in Calls : concReturn(i)

ConcSpec == ConcInit /\ [][ConcNext]_vars

\* PickBlock called on its own.
PickBlockCall ==
    /\ pc = "PickBlock"
    /\ \E k \in PickBlock(in.blocks, in.cursor) :
          res' = [kind |-> "picked", index |-> k]
    /\ pc' = "picked"
    /\ UNCHANGED <<in, block, backend, candidates, candIdx, lastErr,
                   ctxVars, procVars, histVars, tmp>>

PickInit ==
    /\ in \in PickInputs
    /\ pc = "PickBlock"
    /\ parentErr = FALSE
    /\ Entry

PickNext == PickBlockCall

PickSpec == PickInit /\ [][PickNext]_vars

\* ParseBlocks called on its own.
ParseBlocksCall ==
    /\ pc = "ParseBlocks"
    /\ res' = [kind |-> "blocks", blocks |-> ParseBlocks(in.text)]
    /\ pc' = "parsed"
    /\ UNCHANGED <<in, block, backend, candidates, candIdx, lastErr,
                   ctxVars, procVars, histVars, tmp>>

ParseInit ==
    /\ in \in ParseInputs
    /\ pc = "ParseBlocks"
    /\ parentErr = FALSE
    /\ Entry

ParseNext == ParseBlocksCall

ParseSpec == ParseInit /\ [][ParseNext]_vars

\* Run on json blocks: no backend but the reformatter is entered.
JsonInit ==
    /\ in \in JsonInputs
    /\ pc = "Run"
    /\ parentErr = FALSE
    /\ Entry

JsonNext ==
    \/ RunCtxCheck
    \/ RunReadFile
    \/ Reformat

JsonSpec == JsonInit /\ [][JsonNext]_vars

FairSpec ==
    /\ Spec
    /\ WF_vars(RunCtxCheck) /\ WF_vars(RunReadFile)
    /\ WF_vars(runShellNext) /\ WF_vars(runShellClassify)
    /\ WF_vars(runPythonCreate) /\ WF_vars(runPythonWrite)
    /\ WF_vars(runPythonClassify)
    /\ WF_vars(runWithCmdSplit) /\ WF_vars(runWithCmdClassify)
    /\ WF_vars(cmdStart) /\ WF_vars(watchCtx) /\ WF_vars(cmdWait)
    /\ WF_vars(cmdRecv) /\ WF_vars(awaitGoroutines)
    /\ WF_vars(DeadlineExpire)

\* ------------------------------------------------------------------ claims

Done == pc = "done"

ProcBackend == backend \in {"shell", "python", "sql"}

\* The first event of the current timeoutCtx was the deadline, and the
\* child was running at that moment.
ExpiredRunning ==
    Len(fired) >= 1 /\ fired[1].ev = "deadline" /\ fired[1].proc = "running"

\* The first event of the current timeoutCtx was the caller's cancellation,
\* and the child was running at that moment.
CancelRunning ==
    Len(fired) >= 1 /\ fired[1].ev = "cancel" /\ fired[1].proc = "running"

TimeoutNotice == <<"\n", "command timed out">>
CancelNotice  == <<"\n", "command canceled">>

\* The child ended by itself with status 0 and had been waited for before
\* the watcher could signal it: cmd.Run returns nil although the context
\* is done.
FinishedUnsignalled ==
    proc = "reaped" /\ selfExit /\ status = 0 /\ watchErr = "nil"

\* C1: a shell block whose process is still running when the deadline
\* expires makes Run return a Result with exitCode 124 (the run in which
\* the child still finishes with status 0 before it is signalled is left
\* aside here, see C2).
C1_ShellTimeoutIs124 ==
    (Done /\ backend = "shell" /\ ExpiredRunning /\ ~FinishedUnsignalled)
        => (res.kind = "result" /\ res.ExitCode = 124)

\* C2: a python or sql process still running when the deadline
\* expires yields exit code 124 and the captured output followed by the
\* timeout notice.
C2_TimeoutIs124 ==
    (Done /\ backend \in {"python", "sql"} /\ ExpiredRunning)
        => (res.ExitCode = 124 /\ res.Output = out \o TimeoutNotice)

\* C3: when the caller's cancellation fires while a backend process is
\* running, Run returns a Result with exitCode 130 and the captured output
\* followed by a cancellation notice (leaving aside, as in C1, the child
\* that still finishes with status 0 before it is signalled).
C3_CancelIs130 ==
    (Done /\ ProcBackend /\ CancelRunning /\ ~FinishedUnsignalled)
        => /\ res.kind = "result"
           /\ res.ExitCode = 130
           /\ res.Output \in {out \o CancelNotice,
                              out \o <<"\n", "context canceled">>}

\* C4: Run never returns an error because of a timeout or a cancellation:
\* an error is returned only for a read failure, no block found, no block
\* selectable, an unsupported language or unconfigured sql.
C4_NoErrorFromCancel ==
    (Done /\ res.kind = "error")
        => res.err \in {"read", "no fenced code block found",
                        "unable to select code block",
                        "unsupported language",
                        "sql execution unsupported without runblock.sql_cmd"}

\* C5, in the case the claim names: a child that ran to completion by
\* itself with status s # 0, with the deadline or the cancellation firing
\* only after it exited, gives exitCode s and the captured output unchanged.
C5_OwnStatusPropagated ==
    (/\ Done /\ ProcBackend /\ proc = "reaped" /\ selfExit /\ status # 0
     /\ \A i \in 1..Len(fired) : fired[i].proc \in {"exited", "reaped"})
        => (res.ExitCode = status /\ res.Output = out)

\* C6: when the deadline and the cancellation both occur during one
\* backend execution, the exit code is that of the one that fired first
\* (leaving aside, as in C1, the child that still finishes with status 0
\* before it is signalled).
C6_FirstEventDecides ==
    (/\ Done /\ ProcBackend /\ Len(fired) = 2 /\ fired[1].proc = "running"
     /\ ~FinishedUnsignalled)
        => res.ExitCode = (IF fired[1].ev = "deadline" THEN 124 ELSE 130)

\* C7: once the deadline or the cancellation has fired during a process
\* backend's execution, Run eventually returns, whatever the child and the
\* processes it started do.
C7_ReturnsAfterFiring ==
    (ProcBackend /\ pc \in {"Wait", "Recv", "Pipe"} /\ Fired(tctx)) ~> Done

\* C8: when the python backend returns after having created its temporary
\* file, the file is gone, and it was not removed under a child that had
\* not terminated.
C8_TempFileRemoved ==
    /\ (Done /\ tmp # "none") => (tmp = "removed" /\ ~rmAlive)
    /\ tmp = "removed" => proc \in {"none", "reaped"}

\* C8 witness: the file is gone after closing it failed.
C8_Witness ==
    /\ Done /\ backend = "python" /\ tmp = "removed"
    /\ res.Output = <<"close", "failed">>

\* C9: in the shell backend, when earlier candidates were missing and a
\* later candidate ran the code to a successful end, the Result has
\* exitCode 0 and exactly that candidate's captured output.
C9_NotFoundSkippedSilently ==
    (/\ Done /\ backend = "shell"
     /\ Len(attempts) >= 2 /\ attempts[1] = "notfound"
     /\ attempts[Len(attempts)] = "ran"
     /\ FinishedUnsignalled)
        => (res.kind = "result" /\ res.ExitCode = 0 /\ res.Output = out)

\* C9 witness: zsh is missing, bash runs, writes and exits 0.
C9_Witness ==
    /\ Done /\ backend = "shell"
    /\ attempts = <<"notfound", "ran">>
    /\ FinishedUnsignalled /\ Len(out) > 0
    /\ res.ExitCode = 0 /\ res.Output = out

\* C10: one shell backend invocation starts at most one process; an
\* attempt that started a process or failed to launch for another reason
\* than a missing binary is the last attempt, and its outcome is the Result
\* returned: the output captured and exit code 0 after an exit with status
\* zero, the output captured and the process's status after another exit,
\* the output captured followed by the timeout error's text and exit code
\* 124 after a timeout, the output captured followed by the context's error
\* and exit code 130 after a cancellation, and the output captured followed
\* by the launch error's text and exit code 1 after a failed launch.
C10_AtMostOneExecution ==
    backend = "shell" =>
        /\ spawned <= 1
        /\ \A i \in 1..(Len(attempts) - 1) : attempts[i] = "notfound"
        /\ (Done /\ attempts # <<>> /\ attempts[Len(attempts)] # "notfound") =>
              /\ res.kind = "result"
              /\ candIdx = Len(attempts)
              /\ CASE runErr = "nil" ->
                        res.Output = out /\ res.ExitCode = 0
                   [] runErr # "nil" /\ tctx = "DeadlineExceeded" ->
                        /\ res.Output = out \o <<"\n", "command timed out after 30s">>
                        /\ res.ExitCode = 124
                   [] runErr # "nil" /\ tctx = "Canceled" ->
                        /\ res.Output = out \o <<"\n", "context canceled">>
                        /\ res.ExitCode = 130
                   [] runErr = "exit" /\ tctx = "nil" ->
                        res.Output = out /\ res.ExitCode = status
                   [] OTHER ->
                        /\ res.Output = out \o <<"\n", ErrText(runErr)>>
                        /\ res.ExitCode = 1

\* The block the selector chose.
Selected == in.blocks[block]

\* C11: when every shell candidate is missing on the host, Run fails with
\* an error (the no-shell-found failure) and returns no Result.
C11_NoShellFoundIsError ==
    (/\ Done /\ backend = "shell"
     /\ Len(attempts) = Len(candidates)
     /\ \A i \in 1..Len(attempts) : attempts[i] = "notfound")
        => res.kind = "error"

\* C12: for a selected sql block, when the configured sql command is
\* absent, empty or only white space, Run returns the sql-unsupported
\* error, no process is spawned and no temporary file is created.
C12_SqlUnsupported ==
    (/\ block # 0 /\ switchLang(Selected) = S_sql
     /\ TrimSpace(in.cfg.SQLCmd) = <<>>)
        => /\ Done /\ res.kind = "error"
           /\ res.err = "sql execution unsupported without runblock.sql_cmd"
           /\ spawned = 0 /\ attempts = <<>> /\ proc = "none"
           /\ tmp = "none"

\* C12 witness: the sql command is a single space.
C12_Witness ==
    /\ Done /\ block # 0 /\ Selected.Language = <<"S","q","l">>
    /\ in.cfg.SQLCmd = S_blank
    /\ res.err = "sql execution unsupported without runblock.sql_cmd"
    /\ spawned = 0 /\ tmp = "none"

\* C13: for a selected sql block whose configured command is not blank but
\* splits into no token, or cannot be split, Run returns an error and no
\* Result, and no process is spawned.
C13_EmptyCommandIsError ==
    (/\ Done /\ backend = "sql"
     /\ \/ shlexSplit(in.cfg.SQLCmd).err
        \/ shlexSplit(in.cfg.SQLCmd).parts = <<>>)
        => (res.kind = "error" /\ spawned = 0)

\* C14: for every selected block whose lower-cased tag is none of bash, sh,
\* shell, python, py, json and sql (the empty tag included), Run returns an
\* error that names the tag as the document spells it, spawns no process
\* and creates no temporary file.
C14_UnsupportedNamesOriginalTag ==
    (block # 0 /\ backendOf(ToLower(Selected.Language)) = "unsupported")
        => /\ Done /\ res.kind = "error"
           /\ res.err = "unsupported language"
           /\ res.errArg = Selected.Language
           /\ \A tg \in OtherTags :
                 in.text = FencedDoc(Fence3, tg, S_x) => res.errArg = tg
           /\ spawned = 0 /\ attempts = <<>> /\ proc = "none"
           /\ tmp = "none"

\* C14 witness: the block tagged Ruby is refused under that spelling.
C14_Witness ==
    /\ Done /\ block # 0
    /\ in.text = FencedDoc(Fence3, <<"R","u","b","y">>, S_x)
    /\ res.err = "unsupported language" /\ res.errArg = <<"R","u","b","y">>
    /\ spawned = 0 /\ tmp = "none"

\* The tags of the one-block documents explored.
AllTags == ShellTags \cup PythonTags \cup SqlTags \cup JsonTags \cup OtherTags

\* C15: the backend Run enters depends only on the lower-cased tag (bash,
\* sh, shell: shell; python, py: interpreter script; json: reformat; sql:
\* external command) in every letter case; the parser returns the tag as
\* the document spells it, and the Result's language is the lower-cased
\* tag.
C15_RoutingByLowerCasedTag ==
    block # 0 =>
        LET l == ToLower(Selected.Language) IN
        /\ l \in {S_bash, S_sh, S_shell} => backend = "shell"
        /\ l \in {S_python, S_py} => backend = "python"
        /\ l = S_json => backend = "json"
        /\ l = S_sql =>
              \/ backend = "sql"
              \/ /\ TrimSpace(in.cfg.SQLCmd) = <<>>
                 /\ res.err = "sql execution unsupported without runblock.sql_cmd"
        /\ backend \in {"shell", "python", "json", "sql"}
              => backend = backendOf(l)
        /\ res.kind = "result" => res.Language = l
        /\ \A tg \in AllTags, c \in {S_x, S_jsonGood, S_jsonBad} :
              in.text = FencedDoc(Fence3, tg, c) => Selected.Language = tg

\* C15 witness: the block tagged Sh ran in the shell backend and the Result
\* names sh.
C15_Witness ==
    /\ Done /\ block # 0
    /\ in.text = FencedDoc(Fence3, <<"S","h">>, S_x)
    /\ Selected.Language = <<"S","h">>
    /\ backend = "shell" /\ res.kind = "result" /\ res.Language = S_sh

\* C16: for a json block Run spawns no process and creates no temporary
\* file; the Result has exit code 0 and the re-serialized value when the
\* body is valid JSON, and exit code 1 and a non-empty message when it is
\* not; and reformatting an output of the reformatter returns it unchanged.
C16_JsonReformat ==
    /\ spawned = 0 /\ attempts = <<>> /\ proc = "none" /\ tmp = "none"
    /\ Done =>
          LET e == jsonUnmarshal(Selected.Code) IN
          /\ block # 0 /\ switchLang(Selected) = S_json
          /\ res.kind = "result" /\ res.ExitCode \in {0, 1}
          /\ e.ok => /\ res.ExitCode = 0
                      /\ res.Output = jsonMarshalIndent(e.val)
          /\ ~e.ok => /\ res.ExitCode = 1
                       /\ Len(res.Output) = 1 /\ res.Output[1] # ""
          /\ in.round = 1 => (res.ExitCode = 0 /\ res.Output = in.prev)

\* C16 witness: the indented output of a one-element array is given back
\* and comes out unchanged.
C16_Witness ==
    /\ Done /\ in.round = 1
    /\ in.prev = <<"[", "\n", " ", " ", "1", "\n", "]">>
    /\ res.ExitCode = 0 /\ res.Output = in.prev

Parsed == pc = "parsed"

\* The document's lines i and j are its only fence lines: line i one of
\* the opening lines, line j the closing line, every other line text.
OnlyFences(i, j, opening, closing) ==
    /\ i < j
    /\ in.lines[i] \in opening /\ in.lines[j] = closing
    /\ \A k \in 1..Len(in.lines) : k \notin {i, j} => in.lines[k] \in TextLines

\* The body between lines i and j as the document spells it, without the
\* terminator of its last line.
BodyBetween(i, j) == JoinLines(SubSeq(in.lines, i + 1, j - 1), LF, FALSE)

\* C17: a document that holds exactly one fenced block, with an opening
\* line of three backticks and a tag, a body and a closing line of three
\* backticks, with or without text lines around it, parses to exactly one
\* block whose Language is the tag and whose Code is the body without its
\* last line terminator.
C17_OneBlock ==
    (Parsed /\ in.eol = LF) =>
        \A i, j \in 1..Len(in.lines) :
            OnlyFences(i, j, {Fence3, Fence3 \o S_Py}, Fence3) =>
                /\ Len(res.blocks) = 1
                /\ res.blocks[1].Language = Slice(in.lines[i], 3, Len(in.lines[i]))
                /\ res.blocks[1].Code = BodyBetween(i, j)

\* C17 witness: a tagged block with a one-line body between two text lines.
C17_Witness ==
    /\ Parsed /\ in.eol = LF
    /\ in.lines = <<S_x, Fence3 \o S_Py, S_x, Fence3, S_x>>
    /\ Len(res.blocks) = 1
    /\ res.blocks[1].Language = S_Py /\ res.blocks[1].Code = S_x

\* Every "\n" replaced by "\r\n".
RECURSIVE ToCRLF(_)
ToCRLF(s) ==
    IF s = <<>> THEN <<>>
    ELSE (IF Head(s) = "\n" THEN CRLF ELSE <<Head(s)>>) \o ToCRLF(Tail(s))

\* C18: a document written with "\r\n" line ends parses to as many blocks
\* as the same document written with "\n", with the same Language values,
\* and each Code is the "\n" document's Code with "\n" replaced by "\r\n",
\* so that no "\r" is left at the end of a body.
C18_LineEndingsAgree ==
    (Parsed /\ in.eol = CRLF) =>
        LET d == ParseBlocks(JoinLines(in.lines, LF, in.final)) IN
        /\ Len(res.blocks) = Len(d)
        /\ \A i \in 1..Len(d) :
              /\ res.blocks[i].Language = d[i].Language
              /\ res.blocks[i].Code = ToCRLF(d[i].Code)

\* The bytes with every tilde written as a backtick, and the blocks with
\* their Language and Code so rewritten.
Backticked(s) == [i \in 1..Len(s) |-> IF s[i] = "~" THEN BQ ELSE s[i]]

BacktickedBlocks(bs) ==
    [i \in 1..Len(bs) |->
        [bs[i] EXCEPT !.Language = Backticked(@), !.Code = Backticked(@)]]

\* C19: a region opened by a line of three tildes with a tag and closed by
\* a line of three tildes is returned as one block with that Language and
\* body, and a document fenced with tildes parses to the blocks (offsets
\* included) of the same document with every tilde written as a backtick.
C19_TildeLikeBacktick ==
    (/\ Parsed
     /\ \A k \in 1..Len(in.lines) :
           in.lines[k] \in TextLines \cup {Tilde3, Tilde3 \o S_Py})
        => /\ BacktickedBlocks(res.blocks) = ParseBlocks(Backticked(in.text))
           /\ \A i, j \in 1..Len(in.lines) :
                 (in.eol = LF /\ OnlyFences(i, j, {Tilde3 \o S_Py}, Tilde3)) =>
                     /\ Len(res.blocks) = 1
                     /\ res.blocks[1].Language = S_Py
                     /\ res.blocks[1].Code = BodyBetween(i, j)

\* C19 witness: a tilde-fenced block tagged Py with a one-line body.
C19_Witness ==
    /\ Parsed /\ in.eol = LF
    /\ in.lines = <<S_x, Tilde3 \o S_Py, S_x, Tilde3>>
    /\ Len(res.blocks) = 1
    /\ res.blocks[1].Language = S_Py /\ res.blocks[1].Code = S_x
    /\ res.blocks = ParseBlocks(Backticked(in.text))
    /\ ParseBlocks(Backticked(in.text))[1].End = 14

\* C20: on a document whose only fence is an opening fence that is never
\* closed, ParseBlocks returns no block, and Run fails with the
\* no-block-found error without executing anything.
C20_UnterminatedFenceIsNoBlock ==
    (Done /\ in.text = OpenDoc(Fence3, S_sh, S_x))
        => /\ Len(ParseBlocks(in.text)) = 0
           /\ res.kind = "error" /\ res.err = "no fenced code block found"
           /\ spawned = 0

\* The offset just past line k of the document and its terminator (the end
\* of the document when the last line has none).
PastLine(k) ==
    LET n == Len(JoinLines(SubSeq(in.lines, 1, k), in.eol, TRUE))
    IN IF n > Len(in.text) THEN Len(in.text) ELSE n

\* C21: for every block ParseBlocks returns on s, also one with an empty
\* body or one that is not at the start of the document,
\* 0 <= Start < CodeStart <= CodeEnd <= End <= len(s), Code is
\* s[CodeStart:CodeEnd] with at most one trailing newline removed, and
\* Start and End are the offsets of the first byte of the block's opening
\* fence line and just past its closing fence line.  Stated on the
\* documents that hold one closed fenced region, lines i to j.
C21_BlockOffsets ==
    Parsed =>
        \A i, j \in 1..Len(in.lines) :
            (\/ OnlyFences(i, j, {Fence3, Fence3 \o S_Py}, Fence3)
             \/ OnlyFences(i, j, {Tilde3, Tilde3 \o S_Py}, Tilde3))
                => /\ Len(res.blocks) = 1
                   /\ LET b == res.blocks[1]
                          body == Slice(in.text, b.CodeStart, b.CodeEnd)
                      IN /\ 0 <= b.Start /\ b.Start < b.CodeStart
                         /\ b.CodeStart <= b.CodeEnd /\ b.CodeEnd <= b.End
                         /\ b.End <= Len(in.text)
                         /\ b.Code \in {body, TrimSuffix(body, LF)}
                         /\ b.Start = PastLine(i - 1)
                         /\ b.End = PastLine(j)

Picked == pc = "picked"

\* C22: when at least one block of a non-empty list has
\* Start <= cursor <= End, PickBlock returns the first such block in slice
\* order, also when the cursor is a block's Start or End and when several
\* blocks hold it.
C22_FirstContaining ==
    (Picked /\ \E i \in 1..Len(in.blocks) :
                  in.blocks[i].Start <= in.cursor /\ in.cursor <= in.blocks[i].End)
        => /\ res.index \in 1..Len(in.blocks)
           /\ in.blocks[res.index].Start <= in.cursor
           /\ in.cursor <= in.blocks[res.index].End
           /\ \A j \in 1..(res.index - 1) :
                 ~(in.blocks[j].Start <= in.cursor /\ in.cursor <= in.blocks[j].End)

\* C22 witness: the cursor is the End of the second block and the Start of
\* the third, which both hold it; the second is returned.
C22_Witness ==
    /\ Picked
    /\ in.blocks = <<Span(0, 0), Span(1, 2), Span(2, 3)>> /\ in.cursor = 2
    /\ res.index = 2

\* The cursor lies outside every block of the list.
Outside ==
    \A i \in 1..Len(in.blocks) :
        ~(in.blocks[i].Start <= in.cursor /\ in.cursor <= in.blocks[i].End)

\* C23: when the cursor lies outside every block of a non-empty list,
\* PickBlock returns a block whose |Start - cursor| is the smallest of
\* all blocks.
C23_Nearest ==
    (Picked /\ in.blocks # <<>> /\ Outside)
        => /\ res.index \in 1..Len(in.blocks)
           /\ \A j \in 1..Len(in.blocks) :
                 Abs(in.blocks[res.index].Start - in.cursor)
                     <= Abs(in.blocks[j].Start - in.cursor)

\* C23 witness: the cursor is past the End of the nearest block, whose
\* Start is farther from it than its End.
C23_Witness ==
    /\ Picked
    /\ in.blocks = <<Span(3, 3), Span(0, 1)>> /\ in.cursor = 2
    /\ res.index = 1

\* C24: when the cursor lies outside every block and several blocks have
\* the smallest |Start - cursor|, PickBlock returns the earliest of them
\* in slice order, whatever the length of the list.
C24_EarliestOfTies ==
    (Picked /\ in.blocks # <<>> /\ Outside)
        => \A j \in 1..Len(in.blocks) :
              Abs(in.blocks[j].Start - in.cursor)
                  <= Abs(in.blocks[res.index].Start - in.cursor)
              => res.index <= j

\* C27: PickBlock returns nil exactly for the empty list, for every cursor
\* (also a negative one and one past the end of the document), so that Run
\* never fails with "unable to select code block": when ParseBlocks
\* returned a block, a block is selected.
C27_SelectionNeverFails ==
    /\ pc = "ReadFile" =>
          \A c \in (-2)..(Len(in.text) + 2) :
              (0 \in PickBlock(in.blocks, c)) <=> (in.blocks = <<>>)
    /\ res.err # "unable to select code block"
    /\ (Done /\ in.readable /\ in.blocks # <<>> /\ res.err # "context canceled")
          => block \in 1..Len(in.blocks)

\* C27 witness: with the cursor past the end of the document, the second
\* block of the two-block document was selected.
C27_Witness ==
    /\ Done /\ in.text = TwoBlockDoc /\ in.cursor = 40 /\ block = 2

\* What the interpreter of a call with input c has printed when the call
\* runs alone: nothing before it opened the file, then the output of c's
\* code.
AloneOutputs(c) == {<<>>, <<"ran">> \o c.blocks[1].Code}

\* What a call of Run with input c returns when it runs alone: a failure
\* of CreateTemp, WriteString or Close, or what runPython makes of a launch
\* failure, of a context done before the launch, or of its own
\* interpreter's end (status 0 by itself after printing, -1 when killed).
AloneResults(c) ==
    {RetRes(c.blocks[1], Outcome(<<"create temp failed">>, 1)),
     RetRes(c.blocks[1], Outcome(<<"write", "failed">>, 1)),
     RetRes(c.blocks[1], Outcome(<<"close", "failed">>, 1))}
    \cup {RetRes(c.blocks[1], runPythonResult(e, t, 0, <<>>)) :
             e \in {"notfound", "other"}, t \in {"nil", "DeadlineExceeded", "Canceled"}}
    \cup {RetRes(c.blocks[1], runPythonResult("ctx", t, 0, <<>>)) :
             t \in {"DeadlineExceeded", "Canceled"}}
    \cup {RetRes(c.blocks[1], runPythonResult("exit", t, -1, o)) :
             t \in {"DeadlineExceeded", "Canceled"}, o \in AloneOutputs(c)}
    \cup {RetRes(c.blocks[1],
                 runPythonResult("nil", t, 0, <<"ran">> \o c.blocks[1].Code)) :
             t \in {"nil", "DeadlineExceeded", "Canceled"}}
    \cup {RetRes(c.blocks[1],
                 runPythonResult("ctx", t, 0, <<"ran">> \o c.blocks[1].Code)) :
             t \in {"DeadlineExceeded", "Canceled"}}

\* Call i holds a temporary file: it was created and not yet removed.
HoldsFile(i) == pc[i] \in {"pyWrite", "Start", "Wait", "Recv", "Pipe", "classify"}

\* C25: two calls of Run running concurrently on python blocks hold
\* temporary files of different names; every file a call writes, executes
\* or removes is the one it created; a call that has returned has left no
\* file of its own; and each call returns a Result it can return alone.
C25_OwnTemporaryFiles ==
    /\ (HoldsFile(1) /\ HoldsFile(2)) => tmp.name[1] # tmp.name[2]
    /\ \A e \in attempts :
          IF e.op = "create" THEN e.owner = 0 ELSE e.owner = e.call
    /\ \A i \in Calls :
          pc[i] = "done" =>
             /\ \A n \in TempNames : tmp.dir[n].owner # i
             /\ res[i] \in AloneResults(in[i])

\* C25 witness: both calls held a file and both interpreters ran at the
\* same time, on different code; the first call then returned the output of
\* its own code while the second interpreter was still running.
C25_Witness ==
    /\ pc[1] = "done" /\ pc[2] = "Wait" /\ proc[2] = "opened"
    /\ in[1] # in[2]
    /\ FileOp(1, "exec", 1) \in attempts /\ FileOp(2, "exec", 2) \in attempts
    /\ FileOp(1, "remove", 1) \in attempts
    /\ tmp.dir[tmp.name[2]].owner = 2
    /\ res[1].Output = <<"ran", "x">> /\ res[1].ExitCode = 0

\* The tags, lower-cased, for which Run has a backend.
KnownTags == {S_bash, S_sh, S_shell, S_python, S_py, S_json, S_sql}

\* C26: a call of Run that has returned has exactly one outcome, a Result
\* with a nil error or an error with the zero Result. At most one backend
\* is entered and at most one process started, for the block PickBlock
\* chose, whose tag has a backend; a call that returns an error has entered
\* no backend, started no process and created no file.
C26_OneOutcome ==
    /\ Done =>
          /\ res.kind \in {"result", "error"}
          /\ res.kind = "error" =>
                /\ res.err # ""
                /\ [res EXCEPT !.kind = "none", !.err = "", !.errArg = <<>>] = NoRes
                /\ backend = "none" /\ spawned = 0 /\ proc = "none"
                /\ attempts = <<>> /\ tmp = "none" /\ out = <<>>
          /\ res.kind = "result" =>
                /\ res.err = ""
                /\ backend \in {"shell", "python", "json", "sql"}
                /\ res.BlockEnd = Selected.End
    /\ spawned <= 1
    /\ backend # "none" =>
          /\ block \in PickBlock(in.blocks, in.cursor)
          /\ ToLower(Selected.Language) \in KnownTags
          /\ backend = "shell"  <=> ToLower(Selected.Language) \in {S_bash, S_sh, S_shell}
          /\ backend = "python" <=> ToLower(Selected.Language) \in {S_python, S_py}
          /\ backend = "json"   <=> ToLower(Selected.Language) = S_json
          /\ backend = "sql"    <=> ToLower(Selected.Language) = S_sql
    /\ (backend = "none" /\ pc # "Run" /\ pc # "ReadFile") => (Done /\ res.kind = "error")

\* C26 witness: of the two blocks of the document the python block was
\* chosen, one interpreter ran, and Run returned its Result.
C26_Witness ==
    /\ Done /\ in.text = TwoBlockDoc /\ in.cursor = 17
    /\ block = 2 /\ backend = "python" /\ spawned = 1
    /\ res.kind = "result" /\ res.ExitCode = 3

\* bash, sh and, on a Windows host, the Windows-only paths.
StandardShells(goos) ==
    <<S_bash, S_sh>>
    \o (IF goos = "windows" THEN <<S_gitbash1, S_gitbash2, S_wsl>> ELSE <<>>)

\* The order C28 states: the configured shell when it is not blank, then
\* the standard shells other than the configured one.
AttemptOrder(configured, goos) ==
    LET c == TrimSpace(configured)
        differs(x) == x # c
    IN IF c = <<>> THEN StandardShells(goos)
       ELSE <<c>> \o SelectSeq(StandardShells(goos), differs)

\* C28: the shell backend makes its i-th launch attempt on the i-th entry of
\* the list: configured shell (when not blank), bash, sh, the Windows-only
\* paths; no entry occurs twice in the list, none is blank, and no attempt
\* is made past the list.
C28_AttemptOrder ==
    backend = "shell" =>
        /\ candidates = AttemptOrder(in.cfg.Shell, in.goos)
        /\ \A i, j \in 1..Len(candidates) :
              candidates[i] = candidates[j] => i = j
        /\ \A i \in 1..Len(candidates) : TrimSpace(candidates[i]) # <<>>
        /\ Len(attempts) <= Len(candidates)
        /\ pc \in {"runShell", "Start"} => candIdx = Len(attempts) + 1
        /\ pc \notin {"runShell", "Start", "done"} => candIdx = Len(attempts)
        /\ Done => candIdx \in {Len(attempts), Len(attempts) + 1}
        /\ pc = "Start" => candIdx \in 1..Len(candidates)
        /\ Done => res.Output # <<"\n", ShellErrText("empty")>>

\* C28 witness: the configured shell is bash written with a leading blank;
\* bash was tried once and was missing, then sh was tried, and nothing
\* after it.
C28_Witness ==
    /\ Done /\ backend = "shell"
    /\ in.cfg.Shell = <<" ">> \o S_bash
    /\ candidates = <<S_bash, S_sh>>
    /\ attempts = <<"notfound", "notfound">>

\* The lines of the document that are fence lines.
FenceLineNumbers == {k \in 1..Len(in.lines) : in.lines[k] \notin TextLines}

\* The number of fence lines up to line k.
FenceRank(k) == Cardinality({m \in FenceLineNumbers : m <= k})

\* The document is n fenced regions one after the other: its fence lines
\* are all of backticks or all of tildes, the 1st, 3rd, ... open a region
\* and the 2nd, 4th, ... are bare and close it.
WellFormedRegions(n) ==
    /\ Cardinality(FenceLineNumbers) = 2 * n
    /\ \/ \A k \in FenceLineNumbers : in.lines[k] \in {Fence3, Fence3 \o S_Py}
       \/ \A k \in FenceLineNumbers : in.lines[k] \in {Tilde3, Tilde3 \o S_Py}
    /\ \A k \in FenceLineNumbers :
          FenceRank(k) % 2 = 0 => in.lines[k] \in {Fence3, Tilde3}

\* C29: the blocks ParseBlocks returns have strictly increasing Start and
\* pairwise disjoint ranges [Start, End), and a document of n well-formed
\* fenced regions one after the other gives n blocks: no closing line
\* opens a further block.  Stated on the documents of well-formed regions.
C29_OrderedDisjoint ==
    Parsed =>
        \A n \in 0..MaxLines :
            WellFormedRegions(n) =>
                /\ Len(res.blocks) = n
                /\ \A i, j \in 1..Len(res.blocks) :
                      i < j => /\ res.blocks[i].Start < res.blocks[j].Start
                               /\ res.blocks[i].End <= res.blocks[j].Start

\* C30: a Result has exitCode 124 only if the deadline expired during the
\* execution and exitCode 130 only if the caller's cancellation fired
\* during it; a process that ended by itself, with neither event before
\* its end, gives neither code.
C30_ExitCodesDistinguish ==
    (Done /\ ProcBackend /\ res.kind = "result") =>
        /\ res.ExitCode = 124 => \E i \in 1..Len(fired) : fired[i].ev = "deadline"
        /\ res.ExitCode = 130 => \E i \in 1..Len(fired) : fired[i].ev = "cancel"
        /\ (selfExit /\ \A i \in 1..Len(fired) : fired[i].proc \in {"exited", "reaped"})
              => res.ExitCode \notin {124, 130}

====
